---- MODULE Spec2Model ----
(***************************************************************************)
(* A model of the EMV BER-TLV codec of wadearnold/emvparser                *)
(* (src/emvmarshal.go, package emvparser): the strict decoder              *)
(* EMVParser.Parse with the record it keeps on the parser, the lenient     *)
(* scanner extractTLVs, the encoder encodeTLV, the padding rule            *)
(* formatValueForTag and EMVParser.Marshal.                                *)
(*                                                                         *)
(* Bytes are the integers 0..255.  A Go []byte is a sequence of bytes; a   *)
(* nil slice and an empty slice are both the empty sequence (the code      *)
(* tells them apart nowhere: isZeroValue and bytesEqual look at len only). *)
(* A Go string used as a tag key is a sequence of one-character strings,   *)
(* so that fmt.Sprintf("%X") and hex.DecodeString are computed digit by    *)
(* digit.  Go positions are 0-based: data[pos] is bytes[pos + 1] here.     *)
(***************************************************************************)
EXTENDS Integers, Sequences, FiniteSets, TLC

VARIABLES
    data,   \* parser.data: the record stored on the EMVParser (tag text -> bytes)
    pre,    \* parser.data as it was when the last Parse was entered
    op,     \* the last operation run
    arg,    \* the byte buffer (Parse, extractTLVs) or value (encodeTLV) it was given
    doc,    \* the TLV document the caller serialised into arg (<<>> when arg is raw)
    cut,    \* how many bytes of the serialised document the caller passed
    src,    \* where arg came from: "doc", "marshal", "raw" or "none"
    marg,   \* the record the last Marshal was given, as it was at the call
    mout,   \* the record the last Marshal was given, as the call left it
    mfresh, \* marg was returned by Parse of a whole document on a fresh parser
    targ,   \* the tag text the last encodeTLV was given
    used,   \* how many document bytes this parser has been given so far
    calls,  \* the Parse calls in progress on this parser, by caller
    stack,  \* the decoding loops in progress, the innermost call first
    ret     \* what the last operation returned

vars ==
    <<data, pre, op, arg, doc, cut, src, marg, mout, mfresh, targ, used, calls,
      stack, ret>>

-----------------------------------------------------------------------------
(* Bytes, bit tests and hexadecimal text.                                  *)

\* b & 0x1F
Low5(b) == b % 32

\* b & 0x7F
Low7(b) == b % 128

\* (b & 0x80) != 0
HighBit(b) == b >= 128

\* (b & 0x20) != 0
Bit20(b) == (b \div 32) % 2 = 1

UpperDigits == <<"0", "1", "2", "3", "4", "5", "6", "7",
                 "8", "9", "A", "B", "C", "D", "E", "F">>

LowerDigits == <<"0", "1", "2", "3", "4", "5", "6", "7",
                 "8", "9", "a", "b", "c", "d", "e", "f">>

FmtXLower(bytes) ==
    [i \in 1 .. 2 * Len(bytes) |->
        IF i % 2 = 1 THEN LowerDigits[(bytes[(i + 1) \div 2] \div 16) + 1]
                     ELSE LowerDigits[(bytes[i \div 2] % 16) + 1]]

\* fmt.Sprintf("%X", bytes): two uppercase hexadecimal digits per byte.
FmtX(bytes) ==
    [i \in 1 .. 2 * Len(bytes) |->
        IF i % 2 = 1 THEN UpperDigits[(bytes[(i + 1) \div 2] \div 16) + 1]
                     ELSE UpperDigits[(bytes[i \div 2] % 16) + 1]]

\* encoding/hex fromHexChar: the value of one digit, 16 for a character that
\* is no hexadecimal digit.
FromHexChar(c) ==
    IF \E k \in 1 .. 16 : UpperDigits[k] = c
    THEN (CHOOSE k \in 1 .. 16 : UpperDigits[k] = c) - 1
    ELSE IF \E k \in 1 .. 16 : LowerDigits[k] = c
         THEN (CHOOSE k \in 1 .. 16 : LowerDigits[k] = c) - 1
         ELSE 16

RECURSIVE HexDecodeFrom(_, _)
HexDecodeFrom(s, j) ==
    IF j + 1 > Len(s) THEN <<>>
    ELSE LET a == FromHexChar(s[j])
             b == FromHexChar(s[j + 1])
         IN  IF a > 15 \/ b > 15 THEN <<>>
             ELSE <<a * 16 + b>> \o HexDecodeFrom(s, j + 2)

\* hex.DecodeString(s) with its error dropped, as encodeTLV calls it: the
\* bytes decoded before the first invalid or unpaired digit.
HexDecodeString(s) == HexDecodeFrom(s, 1)

-----------------------------------------------------------------------------
(* Tag texts.                                                              *)

T4F   == <<"4", "F">>
T50   == <<"5", "0">>
T57   == <<"5", "7">>
T5F20 == <<"5", "F", "2", "0">>
T5F24 == <<"5", "F", "2", "4">>
T5F34 == <<"5", "F", "3", "4">>
T6F   == <<"6", "F">>
T77   == <<"7", "7">>
T82   == <<"8", "2">>
T84   == <<"8", "4">>
T87   == <<"8", "7">>
T91   == <<"9", "1">>
T95   == <<"9", "5">>
T9F02 == <<"9", "F", "0", "2">>
T9F03 == <<"9", "F", "0", "3">>
T9F10 == <<"9", "F", "1", "0">>
T9F17 == <<"9", "F", "1", "7">>
T9F26 == <<"9", "F", "2", "6">>
T9F27 == <<"9", "F", "2", "7">>
T9F36 == <<"9", "F", "3", "6">>
T9F37 == <<"9", "F", "3", "7">>
T9F47 == <<"9", "F", "4", "7">>
T9F6C == <<"9", "F", "6", "C">>
T9F6E == <<"9", "F", "6", "E">>
TA5   == <<"A", "5">>
TBF0C == <<"B", "F", "0", "C">>
TDEFAULT == <<"D", "E", "F", "A", "U", "L", "T">>

\* The emv struct tags of EMVData, in field order.
EMVDataTags ==
    <<T77, T82, T57, T5F20, T5F24, T9F10, T9F17, T9F6E, T9F6C, T9F37, T9F26,
      T91, T5F34, T9F47, T9F27, T4F, T50, T87, T9F36, T6F, T84>>

\* BuildEMVTagMap(reflect.TypeOf(EMVData{})): the tags that have a field.
BuildEMVTagMap == {EMVDataTags[i] : i \in 1 .. Len(EMVDataTags)}

Fmt(min, left, de55) == [MinLength |-> min, PadLeft |-> left, DE55 |-> de55]

\* The catalog EMVTagFormats, as the set of its (tag, format) entries.
EMVTagFormatEntries ==
    { <<T4F,   Fmt(5, FALSE, FALSE)>>, <<T50,   Fmt(0, FALSE, FALSE)>>,
      <<T57,   Fmt(0, FALSE, FALSE)>>, <<T5F20, Fmt(0, FALSE, FALSE)>>,
      <<T5F24, Fmt(3, TRUE,  FALSE)>>, <<T82,   Fmt(2, TRUE,  TRUE)>>,
      <<T84,   Fmt(0, FALSE, FALSE)>>, <<T87,   Fmt(0, FALSE, FALSE)>>,
      <<T9F02, Fmt(6, TRUE,  TRUE)>>,  <<T9F03, Fmt(6, TRUE,  TRUE)>>,
      <<T9F10, Fmt(0, FALSE, TRUE)>>,  <<T9F26, Fmt(8, TRUE,  TRUE)>>,
      <<T9F27, Fmt(1, TRUE,  TRUE)>>,  <<T9F36, Fmt(2, TRUE,  TRUE)>>,
      <<T9F37, Fmt(4, TRUE,  TRUE)>>,  <<T95,   Fmt(5, FALSE, TRUE)>>,
      <<T77,   Fmt(0, FALSE, FALSE)>>, <<T6F,   Fmt(0, FALSE, FALSE)>>,
      <<TBF0C, Fmt(0, FALSE, FALSE)>>, <<TA5,   Fmt(0, FALSE, FALSE)>>,
      <<TDEFAULT, Fmt(0, FALSE, FALSE)>> }

CatalogTags == {e[1] : e \in EMVTagFormatEntries}

\* EMVTagFormats[tag] for a tag of the catalog.
EMVTagFormats(tag) == (CHOOSE e \in EMVTagFormatEntries : e[1] = tag)[2]

-----------------------------------------------------------------------------
(* Records and tag -> value maps.                                          *)

\* &EMVData{}: every field empty.
EmptyEMVData == [t \in BuildEMVTagMap |-> <<>>]

\* make(map[string][]byte)
EmptyMap == [t \in {} |-> <<>>]

\* m[k] = v for every (k, v) of add, in a map m.
MapMerge(m, add) ==
    [k \in DOMAIN m \cup DOMAIN add |-> IF k \in DOMAIN add THEN add[k] ELSE m[k]]

MapPut(m, k, v) == MapMerge(m, [x \in {k} |-> v])

isZeroValueNever(v) == FALSE

\* isZeroValue of a []byte or string field.
isZeroValue(v) == Len(v) = 0

\* (*EMVData).toMap: the non-empty fields, by tag.
toMap(d) == [t \in {x \in DOMAIN d : ~isZeroValue(d[x])} |-> d[t]]

-----------------------------------------------------------------------------
(* The value length: a Go int, kept as its IntBytes big-endian bytes in    *)
(* two's complement so that valueLen = (valueLen << 8) | b wraps as the    *)
(* machine integer does.                                                   *)

\* The width of a Go int in bytes (64-bit build).
IntBytes == 8

\* valueLen := 0
ZeroReg == [i \in 1 .. IntBytes |-> 0]

\* int(lenByte): one byte, zero-extended.
ByteReg(b) == [i \in 1 .. IntBytes |-> IF i = IntBytes THEN b ELSE 0]

\* (valueLen << 8) | int(b): the top byte is shifted out.
ShiftOr(reg, b) == [i \in 1 .. IntBytes |-> IF i = IntBytes THEN b ELSE reg[i + 1]]

\* valueLen < 0
RegNegative(reg) == reg[1] >= 128

\* 0 <= valueLen < 2^24: only the low three bytes are set.
RegSmall(reg) == \A i \in 1 .. IntBytes - 3 : reg[i] = 0

Low24(reg) == reg[IntBytes - 2] * 65536 + reg[IntBytes - 1] * 256 + reg[IntBytes]

\* pos + valueLen wraps past the largest int (pos < 2^24).
AddOverflows(pos, reg) ==
    /\ reg[1] = 127
    /\ \A i \in 2 .. IntBytes - 3 : reg[i] = 255
    /\ Low24(reg) + pos >= 16777216

RECURSIVE ReadLengthBytes(_, _, _, _)
\* for i := 0; i < lenBytes; i++ { valueLen = (valueLen << 8) | int(data[pos]); pos++ }
ReadLengthBytes(bytes, pos, lenBytes, reg) ==
    IF lenBytes = 0 THEN reg
    ELSE ReadLengthBytes(bytes, pos + 1, lenBytes - 1, ShiftOr(reg, bytes[pos + 1]))

ValueOutcomeInclusive(pos, reg, n) ==
    IF RegNegative(reg) THEN "panic"
    ELSE IF RegSmall(reg) THEN (IF pos + Low24(reg) >= n THEN "value" ELSE "ok")
    ELSE IF AddOverflows(pos, reg) THEN "panic"
    ELSE "value"

\* if pos+valueLen > len(data) { error }; value := data[pos : pos+valueLen]
\*   "value": the check fires; "panic": the check passes (valueLen negative, or
\*   pos+valueLen wrapped negative) and the slice expression panics; "ok".
ValueOutcome(pos, reg, n) ==
    IF RegNegative(reg) THEN "panic"
    ELSE IF RegSmall(reg) THEN (IF pos + Low24(reg) > n THEN "value" ELSE "ok")
    ELSE IF AddOverflows(pos, reg) THEN "panic"
    ELSE "value"

-----------------------------------------------------------------------------
(* Framing of one record at pos, as Parse and extractTLVs both do it.      *)

TagLenAlways1(b) == 1

TagLenAnyLowBit(b) == IF Low5(b) # 0 THEN 2 ELSE 1

\* tagLen := 1; if (data[pos] & 0x1F) == 0x1F { tagLen = 2 }
TagLen(b) == IF Low5(b) = 31 THEN 2 ELSE 1

Framed(status, tag, tagLen, valueLen, value, next) ==
    [status |-> status, tag |-> tag, tagLen |-> tagLen, valueLen |-> valueLen,
     value |-> value, next |-> next]

Unframed(status) == Framed(status, <<>>, 0, 0, <<>>, 0)

\* One pass of the loop body up to "pos += valueLen".  status is "ok", or the
\* check that failed ("tag", "length", "extended length", "value"), or "panic".
ReadTLV(bytes, pos) ==
    LET n      == Len(bytes)
        tagLen == TagLen(bytes[pos + 1])
    IN  IF tagLen = 2 /\ pos + 1 >= n THEN Unframed("tag")
        ELSE
        LET tag == SubSeq(bytes, pos + 1, pos + tagLen)
            p1  == pos + tagLen
        IN  IF p1 >= n THEN Unframed("length")
            ELSE
            LET lenByte  == bytes[p1 + 1]
                p2       == p1 + 1
                lenBytes == Low7(lenByte)
            IN  IF HighBit(lenByte) /\ p2 + lenBytes > n THEN Unframed("extended length")
                ELSE
                LET reg == IF HighBit(lenByte)
                           THEN ReadLengthBytes(bytes, p2, lenBytes, ZeroReg)
                           ELSE ByteReg(lenByte)
                    p3  == IF HighBit(lenByte) THEN p2 + lenBytes ELSE p2
                    out == ValueOutcome(p3, reg, n)
                IN  IF out # "ok" THEN Unframed(out)
                    ELSE Framed("ok", tag, tagLen, Low24(reg),
                                SubSeq(bytes, p3 + 1, p3 + Low24(reg)),
                                p3 + Low24(reg))

-----------------------------------------------------------------------------
(* EMVParser.Parse.                                                        *)

NoError == [kind |-> "nil", path |-> <<>>]

\* fmt.Errorf("unexpected end of data when reading <kind>")
ErrorOf(kind) == [kind |-> kind, path |-> <<>>]

\* fmt.Errorf("error parsing constructed tag %X: %v", tag, err)
WrapError(tag, err) == [kind |-> err.kind, path |-> <<FmtX(tag)>> \o err.path]

IsConstructedNever(tag) == FALSE

\* (tag[0] & 0x20) != 0
IsConstructed(tag) == Bit20(tag[1])

PopulateKeepNothing(d, tagValues) ==
    [t \in DOMAIN d |-> IF t \in DOMAIN tagValues THEN tagValues[t] ELSE <<>>]

\* The loop over tagValues that fills parser.data: a tag without a field is
\* logged and skipped, a field without a tag in tagValues keeps its value.
Populate(d, tagValues) ==
    [t \in DOMAIN d |-> IF t \in DOMAIN tagValues THEN tagValues[t] ELSE d[t]]

ParseReturn(status, err, d) == [status |-> status, err |-> err, data |-> d]

RECURSIVE ParseFrom(_, _, _, _)
\* The body of Parse from position pos, with parser.data = d and the local
\* map tagValues.  status "ok": (parser.data, nil) is returned; "error":
\* (nil, err); "panic": the goroutine panics.  data is parser.data at the end.
ParseFrom(d, bytes, pos, tagValues) ==
    IF pos >= Len(bytes) THEN ParseReturn("ok", NoError, Populate(d, tagValues))
    ELSE
    LET r == ReadTLV(bytes, pos)
    IN  IF r.status = "panic" THEN ParseReturn("panic", NoError, d)
        ELSE IF r.status # "ok" THEN ParseReturn("error", ErrorOf(r.status), d)
        ELSE IF IsConstructed(r.tag)
        THEN LET sub == ParseFrom(d, r.value, 0, EmptyMap)
             IN  IF sub.status = "panic" THEN sub
                 ELSE IF sub.status = "error"
                 THEN ParseReturn("error", WrapError(r.tag, sub.err), sub.data)
                 ELSE ParseFrom(sub.data, bytes, r.next,
                                MapMerge(tagValues, toMap(sub.data)))
        ELSE ParseFrom(d, bytes, r.next, MapPut(tagValues, FmtX(r.tag), r.value))

\* parser.Parse(bytes) on a parser whose stored record is d.
ParseCall(d, bytes) == ParseFrom(d, bytes, 0, EmptyMap)

-----------------------------------------------------------------------------
(* extractTLVs.                                                            *)

ExtractReturn(status, m) == [status |-> status, map |-> m]

RECURSIVE ExtractFrom(_, _, _)
\* The loop of extractTLVs from position pos with the map result.  Every
\* failed check is a break; status is "ok" (the map is returned) or "panic".
ExtractFrom(bytes, pos, result) ==
    IF pos >= Len(bytes) THEN ExtractReturn("ok", result)
    ELSE
    LET r == ReadTLV(bytes, pos)
    IN  IF r.status = "panic" THEN ExtractReturn("panic", result)
        ELSE IF r.status # "ok" THEN ExtractReturn("ok", result)
        ELSE
        LET stored == MapPut(result, FmtX(r.tag), r.value)
            \* data[pos-valueLen-tagLen-1], pos being already past the value
            probe  == bytes[(r.next - r.valueLen - r.tagLen - 1) + 1]
        IN  IF Bit20(probe)
            THEN LET inner == ExtractFrom(r.value, 0, EmptyMap)
                 IN  IF inner.status = "panic" THEN inner
                     ELSE ExtractFrom(bytes, r.next, MapMerge(stored, inner.map))
            ELSE ExtractFrom(bytes, r.next, stored)

extractTLVs(bytes) == ExtractFrom(bytes, 0, EmptyMap)

-----------------------------------------------------------------------------
(* encodeTLV and formatValueForTag.                                        *)

RECURSIVE CountLenBytes(_)
\* lenBytes := 0; for temp > 0 { lenBytes++; temp >>= 8 }
CountLenBytes(temp) == IF temp > 0 THEN 1 + CountLenBytes(temp \div 256) ELSE 0

RECURSIVE Pow256(_)
Pow256(i) == IF i = 0 THEN 1 ELSE 256 * Pow256(i - 1)

\* for i := lenBytes - 1; i >= 0; i-- { append(byte((len(value) >> (i*8)) & 0xFF)) }
BigEndianBytes(n, lenBytes) ==
    [j \in 1 .. lenBytes |-> (n \div Pow256(lenBytes - j)) % 256]

EncodeLengthShortTo128(n) ==
    IF n <= 128 THEN <<n>>
    ELSE <<128 + CountLenBytes(n)>> \o BigEndianBytes(n, CountLenBytes(n))

EncodeLengthPadded(n) ==
    IF n < 128 THEN <<n>>
    ELSE <<128 + CountLenBytes(n) + 1>> \o BigEndianBytes(n, CountLenBytes(n) + 1)

\* The length bytes encodeTLV appends for a value of n bytes.
EncodeLength(n) ==
    IF n < 128 THEN <<n>>
    ELSE <<128 + CountLenBytes(n)>> \o BigEndianBytes(n, CountLenBytes(n))

\* encodeTLV(tag, value)
encodeTLV(tag, value) == HexDecodeString(tag) \o EncodeLength(Len(value)) \o value

\* format, ok := EMVTagFormats[tag]; if !ok { format = EMVTagFormats["DEFAULT"] }
FormatFor(tag) ==
    IF tag \in CatalogTags THEN EMVTagFormats(tag) ELSE EMVTagFormats(TDEFAULT)

Zeros(n) == [i \in 1 .. n |-> 0]

formatValueNoPad(value, tag) == value

formatValueOneMoreZero(value, tag) ==
    IF FormatFor(tag).MinLength > 0 /\ Len(value) <= FormatFor(tag).MinLength
    THEN <<0>> \o value
    ELSE value

\* formatValueForTag(value, tag)
formatValueForTag(value, tag) ==
    LET format == FormatFor(tag)
    IN  IF Len(value) >= format.MinLength THEN value
        ELSE IF format.PadLeft
             THEN Zeros(format.MinLength - Len(value)) \o value
             ELSE value \o Zeros(format.MinLength - Len(value))

-----------------------------------------------------------------------------
(* EMVParser.Marshal.                                                      *)

MarshalledTagsAll(d) == {t \in BuildEMVTagMap : ~isZeroValue(d[t])}

MarshalledTagsUncataloged(d) ==
    {t \in BuildEMVTagMap :
        /\ (t \notin CatalogTags \/ EMVTagFormats(t).DE55)
        /\ ~isZeroValue(d[t])}

\* The keys of tlvMap: the tags of the tag map that the catalog marks DE55
\* and whose field is not empty.
MarshalledTags(d) ==
    {t \in BuildEMVTagMap :
        /\ t \in CatalogTags
        /\ EMVTagFormats(t).DE55
        /\ ~isZeroValue(d[t])}

\* tlvMap
TlvMap(d) == [t \in MarshalledTags(d) |-> formatValueForTag(d[t], t)]

\* The orders in which "for tag, value := range tlvMap" may visit the keys.
RangeOrders(S) ==
    {o \in [1 .. Cardinality(S) -> S] :
        \A i, j \in 1 .. Cardinality(S) : i # j => o[i] # o[j]}

RECURSIVE EncodeAll(_, _)
\* result = append(result, encodeTLV(tag, value)...) for the keys in order
EncodeAll(m, order) ==
    IF order = <<>> THEN <<>>
    ELSE encodeTLV(Head(order), m[Head(order)]) \o EncodeAll(m, Tail(order))

\* The bytes Marshal returns for record d when the map is ranged in order.
MarshalBytes(d, order) == EncodeAll(TlvMap(d), order)

RecordAfterMarshalPadded(d) ==
    [t \in BuildEMVTagMap |->
        IF t \in MarshalledTags(d) THEN formatValueForTag(d[t], t) ELSE d[t]]

\* The record Marshal was given, after the call: Marshal reads the fields
\* (field.Bytes(), field.String()), formatValueForTag returns its argument
\* or a buffer it made, encodeTLV appends to the bytes it decoded from the
\* tag text, and nothing is stored into a field.
RecordAfterMarshal(d) == [t \in BuildEMVTagMap |-> d[t]]

-----------------------------------------------------------------------------
(* The caller's documents: forests of TLV nodes, and their serialisation.  *)
(* A leaf is a primitive record (key: the tag text that names its field,   *)
(* tag: its bytes on the wire, form: 0 for a short-form length, k > 0 for  *)
(* a long-form length of k bytes); a constructed node wraps a forest.      *)

Leaf(key, tag, value, form) ==
    [prim |-> TRUE, key |-> key, tag |-> tag, value |-> value, kids |-> <<>>,
     form |-> form]

Constructed(key, tag, kids) ==
    [prim |-> FALSE, key |-> key, tag |-> tag, value |-> <<>>, kids |-> kids,
     form |-> 0]

LengthField(form, n) ==
    IF form = 0 THEN <<n>> ELSE <<128 + form>> \o BigEndianBytes(n, form)

RECURSIVE SerForest(_)
SerNode(node) ==
    LET body == IF node.prim THEN node.value ELSE SerForest(node.kids)
    IN  node.tag \o LengthField(node.form, Len(body)) \o body

SerForest(f) == IF f = <<>> THEN <<>> ELSE SerNode(Head(f)) \o SerForest(Tail(f))

\* The bytes a leaf takes on the wire.
LeafSize(node) == Len(SerNode(node))

RECURSIVE Forests(_, _, _)
\* The trees that serialise to exactly k bytes, over the given leaves and
\* constructed tags (a constructed node of at most 127 content bytes takes
\* its tag, one length byte and its content).
Trees(k, leaves, ctags) ==
    {l \in leaves : LeafSize(l) = k} \cup
    UNION {{Constructed(c[1], c[2], f) : f \in Forests(k - Len(c[2]) - 1, leaves, ctags)} :
              c \in {x \in ctags : Len(x[2]) + 1 <= k}}

\* The forests that serialise to exactly n bytes.
Forests(n, leaves, ctags) ==
    IF n = 0 THEN {<<>>}
    ELSE UNION {{<<t>> \o f : t \in Trees(k, leaves, ctags),
                              f \in Forests(n - k, leaves, ctags)} : k \in 1 .. n}

RECURSIVE Occurrences(_)
\* The primitive records of a forest in document order (depth first).
Occurrences(f) ==
    IF f = <<>> THEN <<>>
    ELSE (IF Head(f).prim THEN <<Head(f)>> ELSE Occurrences(Head(f).kids))
         \o Occurrences(Tail(f))

\* The value of the last occurrence of key in the forest (<<>> when absent).
LastValue(f, key) ==
    LET occ  == Occurrences(f)
        idxs == {i \in 1 .. Len(occ) : occ[i].key = key}
    IN  IF idxs = {} THEN <<>>
        ELSE occ[CHOOSE i \in idxs : \A j \in idxs : j <= i].value

\* The bound of the lifecycle specification: the bytes one parser is given
\* over its life.
MaxBytes == 10

Leaves ==
    { Leaf(T82,   <<130>>,     <<170>>,      0),
      Leaf(T82,   <<130>>,     <<187>>,      0),
      Leaf(T82,   <<130>>,     <<>>,         0),
      Leaf(T57,   <<87>>,      <<221>>,      0),
      Leaf(T9F10, <<159, 16>>, <<238>>,      0) }

ConsTags == { <<T77, <<119>>>> }

\* The documents of exactly n bytes, n <= MaxBytes.
DocsOfLen == [n \in 0 .. MaxBytes |-> Forests(n, Leaves, ConsTags)]


-----------------------------------------------------------------------------
(* The lifecycle of one parser: NewEMVParser, Parse, Marshal.  Marshal is  *)
(* given the record Parse returned, which is parser.data itself.           *)

\* The callers that may share one parser.
Callers == {"A", "B"}

\* A call of Parse by one caller: where it stands (pc), the local map
\* tagValues not yet stored into parser.data (pending), what it returned
\* (status, err) and parser.data as it was when it returned (seen).
NoCall ==
    [pc |-> "idle", input |-> <<>>, pending |-> EmptyMap, status |-> "none",
     err |-> NoError, seen |-> EmptyEMVData]

NoCalls == [c \in Callers |-> NoCall]

Returned(status, err, rec, bytes, m) ==
    [status |-> status, err |-> err, rec |-> rec, bytes |-> bytes, map |-> m]

NoReturn == Returned("none", NoError, "nil", <<>>, EmptyMap)

\* What Parse hands back for the outcome r of its body: the pointer
\* parser.data with a nil error, or nil with the error.
ParseReturned(r) ==
    Returned(r.status, r.err, IF r.status = "ok" THEN "parser.data" ELSE "nil",
             <<>>, EmptyMap)

Init ==
    /\ data = EmptyEMVData
    /\ pre = EmptyEMVData
    /\ op = "NewEMVParser"
    /\ arg = <<>>
    /\ doc = <<>>
    /\ cut = 0
    /\ src = "none"
    /\ marg = EmptyEMVData
    /\ mout = EmptyEMVData
    /\ mfresh = FALSE
    /\ targ = <<>>
    /\ used = 0
    /\ calls = NoCalls
    /\ stack = <<>>
    /\ ret = NoReturn

\* parser := NewEMVParser(): the caller starts over with a new parser.
NewEMVParser ==
    /\ op # "NewEMVParser"
    /\ data' = EmptyEMVData
    /\ pre' = EmptyEMVData
    /\ op' = "NewEMVParser"
    /\ arg' = <<>>
    /\ doc' = <<>>
    /\ cut' = 0
    /\ src' = "none"
    /\ marg' = EmptyEMVData
    /\ mout' = EmptyEMVData
    /\ mfresh' = FALSE
    /\ ret' = NoReturn
    /\ used' = 0
    /\ calls' = NoCalls
    /\ stack' = <<>>
    /\ UNCHANGED targ

\* parser.Parse(bytes) on the parser as it stands.
Parse(bytes, from, f, k) ==
    LET r == ParseCall(data, bytes)
    IN  /\ pre' = data
        /\ data' = r.data
        /\ op' = "Parse"
        /\ arg' = bytes
        /\ doc' = f
        /\ cut' = k
        /\ src' = from
        /\ ret' = ParseReturned(r)
        /\ UNCHANGED <<marg, mout, mfresh, targ, calls, stack>>

\* Parse of a whole serialised document of n bytes; one parser is given
\* MaxBytes bytes at most over its life.
ParseDoc(n, f) ==
    /\ used + n <= MaxBytes
    /\ used' = used + n
    /\ LET bytes == SerForest(f) IN Parse(bytes, "doc", f, Len(bytes))

\* parser.Marshal(parsedData), parsedData being the pointer Parse returned.
Marshal(order) ==
    /\ op = "Parse"
    /\ ret.status = "ok"
    /\ marg' = data
    /\ mout' = RecordAfterMarshal(data)
    /\ data' = RecordAfterMarshal(data)
    /\ mfresh' = (pre = EmptyEMVData /\ src = "doc")
    /\ op' = "Marshal"
    /\ arg' = <<>>
    /\ doc' = <<>>
    /\ cut' = 0
    /\ src' = "none"
    /\ ret' = Returned("ok", NoError, "nil", MarshalBytes(data, order), EmptyMap)
    /\ UNCHANGED <<pre, targ, used, calls, stack>>

\* The bytes Marshal returned are parsed again: by the same parser, as
\* testEMVData does, or by a parser made for it.
Reparse(fresh) ==
    /\ op = "Marshal"
    /\ LET r == ParseCall(IF fresh THEN EmptyEMVData ELSE data, ret.bytes)
       IN  /\ pre' = (IF fresh THEN EmptyEMVData ELSE data)
           /\ data' = r.data
           /\ op' = "Parse"
           /\ arg' = ret.bytes
           /\ doc' = <<>>
           /\ cut' = Len(ret.bytes)
           /\ src' = "marshal"
           /\ ret' = ParseReturned(r)
           /\ UNCHANGED <<marg, mout, mfresh, targ, used, calls, stack>>

Next ==
    \/ NewEMVParser
    \/ \E n \in 0 .. MaxBytes - used : \E f \in DocsOfLen[n] : ParseDoc(n, f)
    \/ \E order \in RangeOrders(MarshalledTags(data)) : Marshal(order)
    \/ \E fresh \in BOOLEAN : Reparse(fresh)

Spec == Init /\ [][Next]_vars

-----------------------------------------------------------------------------
(* Claims checked under Spec.                                              *)

\* The last Parse was given a whole document by a parser whose record was
\* empty (a freshly constructed parser), and returned a record.
FreshDocParse ==
    op = "Parse" /\ src = "doc" /\ pre = EmptyEMVData /\ ret.status = "ok"

\* C1 (as claimed): after Parse of a well-formed document on a fresh
\* parser, every field holds the value of the last occurrence of its tag in
\* document order, at whatever nesting depth the occurrences are.
C1_LastWriteWins ==
    FreshDocParse => \A t \in BuildEMVTagMap : data[t] = LastValue(doc, t)

\* C2 (as claimed): the record Parse returns for an input on a parser that
\* has parsed before equals the record a fresh parser returns for it.
C2_DependsOnlyOnInput ==
    (op = "Parse" /\ ret.status = "ok")
        => data = ParseCall(EmptyEMVData, arg).data

\* The last Parse ran on a fresh parser over the bytes Marshal returned for
\* the record marg.
FreshReparse == op = "Parse" /\ src = "marshal" /\ pre = EmptyEMVData

\* C3 (as claimed): Marshal of a record R that a fresh Parse returned
\* parses, on a fresh parser, to a record equal to R field for field.
C3_RoundTripEqual ==
    (FreshReparse /\ mfresh) => (ret.status = "ok" /\ data = marg)

\* What survives Marshal: a DE55 field that is not empty, padded.
NormalisedField(rec, t) ==
    IF t \in CatalogTags /\ EMVTagFormats(t).DE55 /\ rec[t] # <<>>
    THEN formatValueForTag(rec[t], t)
    ELSE <<>>

\* C3 (amended): the bytes Marshal returns for a record R parse, on a fresh
\* parser, without error to the record that holds formatValueForTag(R[t], t)
\* in every field t that is marked DE55 and not empty in R and nothing in
\* every other field; that record equals R exactly when every non-empty
\* field of R is a DE55 field at least MinLength long.
C3_RoundTripDE55 ==
    FreshReparse =>
        /\ ret.status = "ok"
        /\ \A t \in BuildEMVTagMap : data[t] = NormalisedField(marg, t)
        /\ (data = marg) <=>
              \A t \in BuildEMVTagMap :
                  marg[t] # <<>> =>
                      /\ t \in CatalogTags
                      /\ EMVTagFormats(t).DE55
                      /\ Len(marg[t]) >= EMVTagFormats(t).MinLength

\* A fresh re-parse of the Marshal output of a record of a fresh Parse, in
\* which Marshal padded tag 82, dropped tag 57 and emitted 9F10 first.
C3_Witness ==
    /\ FreshReparse
    /\ mfresh
    /\ marg[T82] = <<170>>
    /\ marg[T57] = <<221>>
    /\ marg[T9F10] = <<238>>
    /\ arg = <<159, 16, 1, 238, 130, 2, 0, 170>>
    /\ data[T82] = <<0, 170>>
    /\ data[T57] = <<>>

\* The document is one constructed tag that wraps primitive records only.
OneTemplateOfPrimitives ==
    /\ Len(doc) = 1
    /\ ~doc[1].prim
    /\ doc[1].kids # <<>>
    /\ \A i \in 1 .. Len(doc[1].kids) : doc[1].kids[i].prim

\* C7: Parse on a fresh parser of a constructed tag wrapping primitive tags
\* assigns every inner tag's field its inner value and leaves every other
\* field empty, the field of the constructed tag itself (77) included; and
\* no document of constructed and primitive records ever assigns field 77.
C7_ConstructedFlattened ==
    /\ (FreshDocParse /\ OneTemplateOfPrimitives) =>
          /\ \A i \in 1 .. Len(doc[1].kids) :
                data[doc[1].kids[i].key] = LastValue(doc[1].kids, doc[1].kids[i].key)
          /\ \A t \in BuildEMVTagMap :
                (\A i \in 1 .. Len(doc[1].kids) : doc[1].kids[i].key # t)
                    => data[t] = <<>>
          /\ data[doc[1].key] = <<>>
    /\ FreshDocParse => data[T77] = <<>>

\* Parse of 77 { 82 = AA, 57 = DD } on a fresh parser.
C7_Witness ==
    /\ FreshDocParse
    /\ OneTemplateOfPrimitives
    /\ arg = <<119, 6, 130, 1, 170, 87, 1, 221>>
    /\ data[T82] = <<170>>
    /\ data[T57] = <<221>>
    /\ data[T77] = <<>>

-----------------------------------------------------------------------------
(* Truncated documents: Parse, on a fresh parser, of a prefix of a         *)
(* serialised document.                                                    *)

\* The bound of the truncation specification: the bytes of a document.
MaxCutBytes == 8

CutLeaves ==
    { Leaf(T82,   <<130>>,     <<170>>,      0),
      Leaf(T82,   <<130>>,     <<170>>,      2),
      Leaf(T57,   <<87>>,      <<221, 204>>, 0),
      Leaf(T9F10, <<159, 16>>, <<238>>,      1) }

CutConsTags == { <<T77, <<119>>>>, <<TBF0C, <<191, 12>>>> }

CutDocsOfLen == [n \in 0 .. MaxCutBytes |-> Forests(n, CutLeaves, CutConsTags)]

\* parser.Parse(bytes[:k]) on a parser just made, bytes being a document of
\* n bytes.
ParseCut(n, f, k) ==
    /\ op = "NewEMVParser"
    /\ used' = k
    /\ Parse(SubSeq(SerForest(f), 1, k), "cut", f, k)

NextCut ==
    \/ NewEMVParser
    \/ \E n \in 0 .. MaxCutBytes : \E f \in CutDocsOfLen[n] : \E k \in 0 .. n :
          ParseCut(n, f, k)

SpecCut == Init /\ [][NextCut]_vars

\* Where a record lies in the serialised document: its first byte (0-based),
\* the bytes of its tag, of its length field and of the whole record.
Span(start, node, top) ==
    [start |-> start, tl |-> Len(node.tag), hdr |-> Len(node.tag) + 1 + node.form,
     form |-> node.form, total |-> Len(SerNode(node)), top |-> top]

RECURSIVE AllSpans(_, _, _)
\* The spans of every record of forest f, f starting at byte base.
AllSpans(f, base, top) ==
    IF f = <<>> THEN {}
    ELSE LET node == Head(f)
             sp   == Span(base, node, top)
         IN  {sp} \cup (IF node.prim THEN {} ELSE AllSpans(node.kids, base + sp.hdr, FALSE))
                  \cup AllSpans(Tail(f), base + sp.total, top)

TopSpans(f) == {sp \in AllSpans(f, 0, TRUE) : sp.top}

\* What a cut after `within` bytes of a record leaves of it.
CutKind(sp, within) ==
    IF within < sp.tl THEN "tag"
    ELSE IF within = sp.tl THEN "length"
    ELSE IF within < sp.hdr THEN "extended length"
    ELSE "value"

\* C5 (as claimed): for every record of the buffer, nested ones included, a
\* cut strictly inside its long-form length bytes gives the 'extended
\* length' error, a cut strictly inside its value the 'value' error, and a
\* cut after the first byte of its 2-byte tag the 'tag' error.
C5_AnyRecordCut ==
    (op = "Parse" /\ src = "cut") =>
        \A sp \in AllSpans(doc, 0, TRUE) :
            LET within == cut - sp.start
            IN  /\ (sp.form > 0 /\ sp.tl < within /\ within < sp.hdr)
                      => (ret.status = "error" /\ ret.err.kind = "extended length")
                /\ (sp.hdr < within /\ within < sp.total)
                      => (ret.status = "error" /\ ret.err.kind = "value")
                /\ (0 < within /\ within < sp.tl)
                      => (ret.status = "error" /\ ret.err.kind = "tag")

\* C5 (amended): Parse of a prefix of a well-formed buffer fails exactly
\* when the cut falls strictly inside a top-level record, with the error of
\* that top-level record: 'tag' after the first byte of its 2-byte tag,
\* 'length' after its tag, 'extended length' inside its long-form length
\* bytes, 'value' from the end of its length field on (a cut inside a
\* nested record is a cut inside the value of the enclosing top-level
\* record); the error is not wrapped and the record returned is nil.
C5_TopLevelCut ==
    (op = "Parse" /\ src = "cut") =>
        /\ \A sp \in TopSpans(doc) :
              (sp.start < cut /\ cut < sp.start + sp.total) =>
                  /\ ret.status = "error"
                  /\ ret.err = ErrorOf(CutKind(sp, cut - sp.start))
                  /\ ret.rec = "nil"
        /\ (\A sp \in TopSpans(doc) : ~(sp.start < cut /\ cut < sp.start + sp.total))
              => ret.status = "ok"

\* The prefix BF0C 05 82 82 00 of BF0C { 82 = AA, long form }: the cut is
\* inside the length bytes of the nested record and inside the value of the
\* top-level one.
C5_Witness ==
    /\ op = "Parse"
    /\ src = "cut"
    /\ arg = <<191, 12, 5, 130, 130, 0>>
    /\ ret.status = "error"
    /\ ret.err = ErrorOf("value")

-----------------------------------------------------------------------------
(* Arbitrary buffers: Parse on a fresh parser, and extractTLVs, of byte    *)
(* strings that need not be well formed.                                   *)

\* The bounds of the raw-buffer specification: the bytes of a short buffer,
\* and the count N of length bytes a long-form length declares.
MaxRawLen == 4
MaxLenBytes == 9

\* 00 01, 10 (second byte of 9F10), 77 (constructed), 82 (tag 82 and the
\* long form of two bytes), 9F (first byte of a 2-byte tag).
RawBytes == {0, 1, 16, 119, 130, 159}

ShortBuffers == UNION { [1 .. n -> RawBytes] : n \in 0 .. MaxRawLen }

\* 82 (80|N) b1 .. bN rest: tag 82 with a long-form length of N bytes.
LengthBytes(N, lead, fill, last) ==
    [i \in 1 .. N |-> IF i = N THEN last ELSE IF i = 1 THEN lead ELSE fill]

LongFormBuffers ==
    { <<130, 128 + N>> \o LengthBytes(N, lead, fill, last) \o rest :
          N \in 0 .. MaxLenBytes, lead \in {0, 1, 127, 128, 255},
          fill \in {0, 255}, last \in {0, 1, 2, 255},
          rest \in {<<>>, <<170>>, <<170, 187>>} }

RawBuffers == ShortBuffers \cup LongFormBuffers

\* parser.Parse(b) on a parser just made.
ParseRaw(b) ==
    /\ op = "NewEMVParser"
    /\ used' = Len(b)
    /\ Parse(b, "raw", <<>>, Len(b))

\* extractTLVs(b): a free function, no parser involved.
ExtractRaw(b) ==
    /\ op = "NewEMVParser"
    /\ LET r == extractTLVs(b)
       IN  /\ op' = "extractTLVs"
           /\ arg' = b
           /\ ret' = Returned(r.status, NoError, "nil", <<>>, r.map)
    /\ src' = "raw"
    /\ doc' = <<>>
    /\ cut' = Len(b)
    /\ used' = Len(b)
    /\ UNCHANGED <<data, pre, marg, mout, mfresh, targ, calls, stack>>

NextRaw ==
    \/ NewEMVParser
    \/ \E b \in RawBuffers : ParseRaw(b)
    \/ \E b \in RawBuffers : ExtractRaw(b)

SpecRaw == Init /\ [][NextRaw]_vars

\* The framing the format prescribes, for reference: the record starting at
\* pos (0-based) of buffer b, its length read as an unsigned big-endian
\* integer of any size (Huge stands for any length above three bytes).
Huge == 256 * 256 * 256

RefBigEndian(bs) ==
    LET n == Len(bs)
    IN  IF \E i \in 1 .. n : i <= n - 3 /\ bs[i] # 0 THEN Huge
        ELSE LET at(i) == IF i >= 1 THEN bs[i] ELSE 0
             IN  at(n - 2) * 65536 + at(n - 1) * 256 + at(n)

RefRecord(b, pos) ==
    LET n    == Len(b)
        tl   == IF b[pos + 1] % 32 = 31 THEN 2 ELSE 1
        lb   == b[pos + tl + 1]
        N    == IF lb >= 128 THEN lb - 128 ELSE 0
        hdr  == tl + 1 + N
        decl == IF lb < 128 THEN lb
                ELSE RefBigEndian(SubSeq(b, pos + tl + 2, pos + tl + 1 + N))
        none == [kind |-> "none", tl |-> 0, hdr |-> 0, len |-> 0, next |-> pos]
    IN  IF pos >= n THEN none
        ELSE IF pos + tl > n THEN [none EXCEPT !.kind = "tag"]
        ELSE IF pos + tl = n THEN [none EXCEPT !.kind = "length", !.tl = tl]
        ELSE IF pos + hdr > n THEN [none EXCEPT !.kind = "extended length", !.tl = tl]
        ELSE IF decl > n - pos - hdr
                 THEN [kind |-> "value", tl |-> tl, hdr |-> hdr, len |-> decl, next |-> pos]
        ELSE [kind |-> "complete", tl |-> tl, hdr |-> hdr, len |-> decl,
              next |-> pos + hdr + decl]

RECURSIVE CompletePrefix(_, _)
\* The length of the longest prefix of b made of complete top-level records.
CompletePrefix(b, pos) ==
    LET r == RefRecord(b, pos)
    IN  IF r.kind = "complete" THEN CompletePrefix(b, r.next) ELSE pos

RECURSIVE RefMalformed(_, _)
\* A truncated tag, length or value at some nesting depth of b, from pos on.
RefMalformed(b, pos) ==
    LET r == RefRecord(b, pos)
    IN  IF r.kind = "none" THEN FALSE
        ELSE IF r.kind # "complete" THEN TRUE
        ELSE \/ /\ (b[pos + 1] \div 32) % 2 = 1
                /\ RefMalformed(SubSeq(b, pos + r.hdr + 1, r.next), 0)
             \/ RefMalformed(b, r.next)

\* C4: whenever Parse meets a truncated tag, length or value at any nesting
\* depth, it returns a non-nil error and a nil record.
C4_AbandonsOnStructuralError ==
    (op = "Parse" /\ src = "raw" /\ RefMalformed(arg, 0)) =>
        (ret.status = "error" /\ ret.err.kind # "nil" /\ ret.rec = "nil")

\* C6: extractTLVs returns a map for every byte sequence, and the map is
\* the one extractTLVs gives for the longest prefix of complete top-level
\* records.
C6_LenientNeverFails ==
    (op = "extractTLVs") =>
        /\ ret.status = "ok"
        /\ ret.map = extractTLVs(SubSeq(arg, 1, CompletePrefix(arg, 0))).map

\* C9: in Parse, the length of the first record (tag 82 here) is the length
\* byte itself when its high bit is clear, and otherwise the unsigned
\* big-endian integer of the next N bytes: a declared length above the
\* bytes that remain is the 'value' error, and a declared length equal to
\* the bytes that remain makes them the value of the record.
C9_LengthDecoding ==
    (op = "Parse" /\ src = "raw" /\ Len(arg) >= 2 /\ arg[1] = 130
        /\ RefRecord(arg, 0).kind \in {"value", "complete"}) =>
        LET r      == RefRecord(arg, 0)
            remain == Len(arg) - r.hdr
        IN  /\ (r.len > remain) => (ret.status = "error" /\ ret.err = ErrorOf("value"))
            /\ (r.len = remain) =>
                  (ret.status = "ok" /\ data[T82] = SubSeq(arg, r.hdr + 1, Len(arg)))

\* C8: at every record start, Parse and extractTLVs read a 2-byte tag if
\* and only if the low 5 bits of the first tag byte are all set, and a
\* 1-byte tag otherwise; the key is the uppercase hexadecimal text of
\* exactly those bytes.  For Parse: a buffer of one byte is a whole tag
\* (the 'length' error) unless the byte announces a second tag byte (the
\* 'tag' error), and a buffer of two bytes is a whole 2-byte tag (the
\* 'length' error) exactly when the first announces a second.  For
\* extractTLVs: every key is the uppercase text of one byte whose low 5
\* bits are not all set, or of two bytes the first of which has them all
\* set, and the tag of every complete top-level record is a key.
RECURSIVE RefTagKeys(_, _)
\* The texts of the tags of the complete top-level records of b, from pos.
RefTagKeys(b, pos) ==
    LET r == RefRecord(b, pos)
    IN  IF r.kind = "complete"
        THEN {FmtX(SubSeq(b, pos + 1, pos + r.tl))} \cup RefTagKeys(b, r.next)
        ELSE {}

C8_TagFraming ==
    /\ (op = "Parse" /\ src = "raw" /\ Len(arg) = 1) =>
          /\ ret.status = "error"
          /\ ret.err = ErrorOf(IF arg[1] % 32 = 31 THEN "tag" ELSE "length")
    /\ (op = "Parse" /\ src = "raw" /\ Len(arg) = 2) =>
          ((ret.status = "error" /\ ret.err = ErrorOf("length")) <=> (arg[1] % 32 = 31))
    /\ (op = "extractTLVs" /\ ret.status = "ok") =>
          /\ RefTagKeys(arg, 0) \subseteq DOMAIN ret.map
          /\ \A key \in DOMAIN ret.map :
                /\ Len(key) \in {2, 4}
                /\ \A i \in 1 .. Len(key) : \E d \in 1 .. 16 : key[i] = UpperDigits[d]
                /\ (Len(key) = 4) <=> (HexDecodeString(key)[1] % 32 = 31)
                /\ \E p \in 1 .. Len(arg) :
                      /\ p + Len(key) \div 2 - 1 <= Len(arg)
                      /\ key = FmtX(SubSeq(arg, p, p + Len(key) \div 2 - 1))

\* extractTLVs of 9F 10 01 77: the 2-byte tag 9F10 is the key of the value 77.
C8_Witness ==
    /\ op = "extractTLVs"
    /\ arg = <<159, 16, 1, 119>>
    /\ ret.status = "ok"
    /\ DOMAIN ret.map = {T9F10}
    /\ ret.map[T9F10] = <<119>>

-----------------------------------------------------------------------------
(* Encoding: encodeTLV of a tag text and a value.                          *)

\* The bound of the encoding specification: the bytes of a value (the two
\* lengths around 65536 are added, for the step from two length bytes to
\* three).
MaxEncLen == 300

EncLens == (0 .. MaxEncLen) \cup {65535, 65536}

Tbf0c == <<"b", "f", "0", "c">>

\* The tag texts given to encodeTLV, each with the bytes it spells.
EncTags == { <<T82, <<130>>>>, <<T9F10, <<159, 16>>>>, <<Tbf0c, <<191, 12>>>> }

\* encodeTLV(tag, value), value being n bytes fill: a free function, no
\* parser involved.
EncodeTLV(tag, n, fill) ==
    /\ op = "NewEMVParser"
    /\ LET value == [i \in 1 .. n |-> fill]
       IN  /\ arg' = value
           /\ ret' = Returned("ok", NoError, "nil", encodeTLV(tag, value), EmptyMap)
    /\ op' = "encodeTLV"
    /\ targ' = tag
    /\ src' = "enc"
    /\ doc' = <<>>
    /\ cut' = n
    /\ used' = 0
    /\ UNCHANGED <<data, pre, marg, mout, mfresh, calls, stack>>

NextEnc ==
    \/ \E t \in EncTags : \E n \in EncLens : \E fill \in {0, 255} :
          EncodeTLV(t[1], n, fill)
    \/ NewEMVParser

SpecEnc == Init /\ [][NextEnc]_vars

RECURSIVE RefUnsigned(_)
\* The unsigned big-endian integer a byte string spells.
RefUnsigned(bs) ==
    IF bs = <<>> THEN 0 ELSE RefUnsigned(SubSeq(bs, 1, Len(bs) - 1)) * 256 + bs[Len(bs)]

\* C10: encodeTLV(t, v) is the bytes of t, then L, then v, where L is the
\* single byte len(v) when len(v) < 128, and otherwise the byte 0x80|k and
\* the k big-endian bytes of len(v), the first of them non-zero.
C10_EncodeLayout ==
    (op = "encodeTLV") =>
        LET n        == Len(arg)
            out      == ret.bytes
            tagBytes == (CHOOSE t \in EncTags : t[1] = targ)[2]
            L        == SubSeq(out, Len(tagBytes) + 1, Len(out) - n)
        IN  /\ Len(out) >= Len(tagBytes) + 1 + n
            /\ SubSeq(out, 1, Len(tagBytes)) = tagBytes
            /\ SubSeq(out, Len(out) - n + 1, Len(out)) = arg
            /\ IF n < 128 THEN L = <<n>>
               ELSE /\ Len(L) >= 2
                    /\ L[1] = 128 + (Len(L) - 1)
                    /\ L[2] # 0
                    /\ RefUnsigned(Tail(L)) = n

\* encodeTLV("bf0c", 128 bytes FF) = BF 0C 81 80 FF .. FF.
C10_Witness ==
    /\ op = "encodeTLV"
    /\ targ = Tbf0c
    /\ Len(arg) = 128
    /\ arg[1] = 255
    /\ SubSeq(ret.bytes, 1, 5) = <<191, 12, 129, 128, 255>>
    /\ Len(ret.bytes) = 132

\* The length field of the last encodeTLV output: what lies between the
\* bytes of the tag and the value.
EncodedLengthField ==
    LET tagBytes == (CHOOSE t \in EncTags : t[1] = targ)[2]
    IN  SubSeq(ret.bytes, Len(tagBytes) + 1, Len(ret.bytes) - Len(arg))

\* C11: encodeTLV gives a value of length 127 the single length byte 7F, a
\* value of length 128 the bytes 81 80, a value of length 255 the bytes
\* 81 FF, and a value of length 256 the bytes 82 01 00.
C11_LengthBoundaries ==
    (op = "encodeTLV") =>
        /\ (Len(arg) = 127) => (EncodedLengthField = <<127>>)
        /\ (Len(arg) = 128) => (EncodedLengthField = <<129, 128>>)
        /\ (Len(arg) = 255) => (EncodedLengthField = <<129, 255>>)
        /\ (Len(arg) = 256) => (EncodedLengthField = <<130, 1, 0>>)

\* encodeTLV("82", 256 bytes 00) = 82 82 01 00 00 .. 00.
C11_Witness ==
    /\ op = "encodeTLV"
    /\ targ = T82
    /\ Len(arg) = 256
    /\ arg[1] = 0
    /\ SubSeq(ret.bytes, 1, 4) = <<130, 130, 1, 0>>
    /\ Len(ret.bytes) = 260

-----------------------------------------------------------------------------
(* Records: Marshal of a record the caller built, and Marshal of the       *)
(* record Parse returned for one primitive TLV.                            *)

\* The bound of the record specification: the bytes of the value of a
\* primitive TLV (the four lengths around the long forms are added).
MaxPrimLen == 8

PrimLens == (0 .. MaxPrimLen) \cup {127, 128, 255, 256}

\* Tags with a field in EMVData, each with its bytes: 82, 9F10, 9F27 and
\* 9F36 are marked DE55; 57 and 4F are cataloged and not marked; 5F34 has
\* no catalog entry.
PrimTags ==
    { <<T82, <<130>>>>, <<T9F10, <<159, 16>>>>, <<T9F27, <<159, 39>>>>,
      <<T9F36, <<159, 54>>>>, <<T57, <<87>>>>, <<T4F, <<79>>>>,
      <<T5F34, <<95, 52>>>> }

\* first, first + 10h, first + 20h, ..: 20 30 is the value of 82022030.
PrimValue(n, first) == [i \in 1 .. n |-> (first + 16 * (i - 1)) % 256]

\* The fewest length bytes that hold n: none above the length byte below
\* 128, one below 256, two below 65536.
MinimalForm(n) == IF n < 128 THEN 0 ELSE IF n < 256 THEN 1 ELSE 2

\* parser.Parse, on a parser just made, of the one primitive TLV tag,
\* length (minimal or with one length byte more), value.
ParsePrim(t, n, first, extra) ==
    /\ op = "NewEMVParser"
    /\ LET leaf  == Leaf(t[1], t[2], PrimValue(n, first), MinimalForm(n) + extra)
           bytes == SerNode(leaf)
       IN  /\ used' = Len(bytes)
           /\ Parse(bytes, "prim", <<leaf>>, Len(bytes))

\* parser.Marshal(parsedData), parsedData being what ParsePrim returned.
MarshalParsed(order) ==
    /\ op = "Parse"
    /\ src = "prim"
    /\ ret.status = "ok"
    /\ marg' = data
    /\ mout' = RecordAfterMarshal(data)
    /\ data' = RecordAfterMarshal(data)
    /\ mfresh' = (pre = EmptyEMVData)
    /\ op' = "Marshal"
    /\ ret' = Returned("ok", NoError, "nil", MarshalBytes(data, order), EmptyMap)
    /\ UNCHANGED <<pre, arg, doc, cut, src, targ, used, calls, stack>>

\* The records a caller builds: fields 77, 6F, 4F and 57 (cataloged, not
\* DE55), 5F34 (no catalog entry), 82, 9F10 and 9F27 (DE55; 82 shorter
\* than, equal to and longer than its MinLength of 2).
Records ==
    { [EmptyEMVData EXCEPT ![T77] = v77, ![T6F] = v6F, ![T4F] = v4F, ![T57] = v57,
                           ![T5F34] = v5F34, ![T82] = v82, ![T9F10] = v9F10,
                           ![T9F27] = v9F27] :
          v77 \in {<<>>, <<130, 1, 170>>}, v6F \in {<<>>, <<132, 0>>},
          v4F \in {<<>>, <<160>>}, v57 \in {<<>>, <<221>>}, v5F34 \in {<<>>, <<1>>},
          v82 \in {<<>>, <<170>>, <<32, 48>>, <<1, 2, 3>>},
          v9F10 \in {<<>>, <<238>>}, v9F27 \in {<<>>, <<128>>} }

\* The records given to a parser that has parsed before.
FewRecords ==
    { [EmptyEMVData EXCEPT ![T57] = v57, ![T82] = v82] :
          v57 \in {<<>>, <<221>>}, v82 \in {<<>>, <<170>>, <<32, 48>>} }

\* parser.Marshal(&R) for a record R the caller built: R is not the record
\* stored on the parser.
MarshalRecord(R, order) ==
    /\ marg' = R
    /\ mout' = RecordAfterMarshal(R)
    /\ mfresh' = FALSE
    /\ op' = "Marshal"
    /\ src' = "rec"
    /\ arg' = <<>>
    /\ doc' = <<>>
    /\ cut' = 0
    /\ ret' = Returned("ok", NoError, "nil", MarshalBytes(R, order), EmptyMap)
    /\ UNCHANGED <<data, pre, targ, used, calls, stack>>

NextRec ==
    \/ NewEMVParser
    \/ \E t \in PrimTags : \E n \in PrimLens : \E first \in {0, 32} :
          \E extra \in {0, 1} : ParsePrim(t, n, first, extra)
    \/ \E order \in RangeOrders(MarshalledTags(data)) : MarshalParsed(order)
    \/ /\ op = "NewEMVParser"
       /\ \E R \in Records : \E order \in RangeOrders(MarshalledTags(R)) :
             MarshalRecord(R, order)
    \/ /\ op = "Parse"
       /\ src = "prim"
       /\ \E R \in FewRecords : \E order \in RangeOrders(MarshalledTags(R)) :
             MarshalRecord(R, order)

SpecRec == Init /\ [][NextRec]_vars

\* C12: Marshal(Parse(input)) on a fresh parser returns exactly the input
\* bytes, for every input that is one primitive TLV with a minimally
\* encoded length whose tag is a DE55 field of EMVData and whose value is
\* not empty and at least the tag's MinLength long.
C12_ByteExactReencode ==
    (op = "Marshal" /\ src = "prim") =>
        LET leaf == doc[1]
        IN  ( /\ leaf.key \in CatalogTags
              /\ EMVTagFormats(leaf.key).DE55
              /\ leaf.form = MinimalForm(Len(leaf.value))
              /\ Len(leaf.value) >= 1
              /\ Len(leaf.value) >= EMVTagFormats(leaf.key).MinLength )
            => ret.bytes = arg

\* Marshal(Parse(82 02 20 30)) = 82 02 20 30.
C12_Witness ==
    /\ op = "Marshal"
    /\ src = "prim"
    /\ arg = <<130, 2, 32, 48>>
    /\ ret.bytes = <<130, 2, 32, 48>>

-----------------------------------------------------------------------------
(* Padding: formatValueForTag of a value and a tag text, and of its own    *)
(* result.                                                                 *)

\* The bound of the padding specification: the bytes of a value.
MaxFmtLen == 10

\* 82 and 9F26: MinLength 2 and 8, padded on the left; 4F and 95: MinLength
\* 5, padded on the right; 9F10 and 57: MinLength 0; 91 and 5F34: not in
\* the catalog.
FmtTags == {T82, T9F26, T4F, T95, T9F10, T57, T91, T5F34}

\* formatValueForTag(value, tag), value being n bytes first, first + 10h, ..
FormatValue(tag, n, first) ==
    /\ op = "NewEMVParser"
    /\ LET value == PrimValue(n, first)
       IN  /\ arg' = value
           /\ ret' = Returned("ok", NoError, "nil", formatValueForTag(value, tag), EmptyMap)
    /\ op' = "formatValueForTag"
    /\ targ' = tag
    /\ src' = "fmt"
    /\ doc' = <<>>
    /\ cut' = n
    /\ used' = 0
    /\ UNCHANGED <<data, pre, marg, mout, mfresh, calls, stack>>

\* formatValueForTag(formatted, tag), formatted being what the call before
\* returned for the same tag.
FormatAgain ==
    /\ op = "formatValueForTag"
    /\ src = "fmt"
    /\ arg' = ret.bytes
    /\ ret' = Returned("ok", NoError, "nil", formatValueForTag(ret.bytes, targ), EmptyMap)
    /\ src' = "fmt again"
    /\ UNCHANGED <<data, pre, op, doc, cut, marg, mout, mfresh, targ, used, calls, stack>>

NextFmt ==
    \/ NewEMVParser
    \/ \E tag \in FmtTags : \E n \in 0 .. MaxFmtLen : \E first \in {0, 170} :
          FormatValue(tag, n, first)
    \/ FormatAgain

SpecFmt == Init /\ [][NextFmt]_vars

\* C13: formatValueForTag(v, t) uses the catalog entry of t, or DEFAULT when
\* t is absent; it returns v when len(v) >= MinLength, and otherwise
\* MinLength bytes: v preceded by zero bytes when PadLeft, v followed by
\* zero bytes when not.  The result is max(len(v), MinLength) bytes long.
C13_PaddingRule ==
    (op = "formatValueForTag") =>
        LET entry == IF targ \in CatalogTags THEN EMVTagFormats(targ)
                     ELSE EMVTagFormats(TDEFAULT)
            min   == entry.MinLength
            v     == arg
            out   == ret.bytes
            pad   == min - Len(v)
        IN  /\ Len(out) = (IF Len(v) >= min THEN Len(v) ELSE min)
            /\ (Len(v) >= min) => (out = v)
            /\ (Len(v) < min /\ entry.PadLeft) =>
                  /\ \A i \in 1 .. pad : out[i] = 0
                  /\ SubSeq(out, pad + 1, min) = v
            /\ (Len(v) < min /\ ~entry.PadLeft) =>
                  /\ SubSeq(out, 1, Len(v)) = v
                  /\ \A i \in Len(v) + 1 .. min : out[i] = 0

\* formatValueForTag(AA BA CA, "4F") = AA BA CA 00 00: padded on the right.
C13_Witness ==
    /\ op = "formatValueForTag"
    /\ src = "fmt"
    /\ targ = T4F
    /\ arg = <<170, 186, 202>>
    /\ ret.bytes = <<170, 186, 202, 0, 0>>

\* C14: formatValueForTag(formatValueForTag(v, t), t) equals
\* formatValueForTag(v, t), for every value v and every tag t, cataloged or
\* not.
C14_PaddingIdempotent ==
    (op = "formatValueForTag" /\ src = "fmt again") => (ret.bytes = arg)

\* formatValueForTag(00 00 00 00 00 00 00 AA, "9F26"), the argument being
\* what formatValueForTag(AA, "9F26") returned.
C14_Witness ==
    /\ op = "formatValueForTag"
    /\ src = "fmt again"
    /\ targ = T9F26
    /\ arg = <<0, 0, 0, 0, 0, 0, 0, 170>>
    /\ ret.bytes = arg

RECURSIVE RefRecordSeq(_, _)
\* The complete top-level records of b from pos on, in order: the text of
\* the tag, the first byte (0-based) and the byte after the last.
RefRecordSeq(b, pos) ==
    LET r == RefRecord(b, pos)
    IN  IF r.kind = "complete"
        THEN <<[key |-> FmtX(SubSeq(b, pos + 1, pos + r.tl)), from |-> pos,
                to |-> r.next]>> \o RefRecordSeq(b, r.next)
        ELSE <<>>

\* C15: the output of Marshal contains no TLV whose tag is not marked DE55
\* in EMVTagFormats: it is a sequence of whole TLVs, every one under a tag
\* the catalog marks DE55; tags 77, 6F, BF0C, A5 and 4F and the tags
\* without catalog entry (5F34) are absent, also from the map extractTLVs
\* makes of the output, whatever the fields of the record hold.
C15_DE55Filtering ==
    (op = "Marshal") =>
        /\ CompletePrefix(ret.bytes, 0) = Len(ret.bytes)
        /\ \A key \in RefTagKeys(ret.bytes, 0) :
              key \in CatalogTags /\ EMVTagFormats(key).DE55
        /\ RefTagKeys(ret.bytes, 0) \cap {T77, T6F, TBF0C, TA5, T4F, T5F34} = {}
        /\ DOMAIN extractTLVs(ret.bytes).map \cap {T77, T6F, TBF0C, TA5, T4F, T5F34} = {}

\* Marshal of the record with 77, 6F, 4F, 57, 5F34 and 9F10 set: 9F 10 01 EE.
C15_Witness ==
    /\ op = "Marshal"
    /\ src = "rec"
    /\ marg[T77] = <<130, 1, 170>>
    /\ marg[T6F] = <<132, 0>>
    /\ marg[T4F] = <<160>>
    /\ marg[T57] = <<221>>
    /\ marg[T5F34] = <<1>>
    /\ marg[T9F10] = <<238>>
    /\ marg[T82] = <<>>
    /\ marg[T9F27] = <<>>
    /\ ret.bytes = <<159, 16, 1, 238>>

\* C16: the output of Marshal is a flat concatenation, in some order, of
\* exactly one TLV encodeTLV(t, formatValueForTag(v, t)) for each tag t that
\* has a field, is marked DE55 and whose field v is not empty; an empty
\* field is omitted (also when MinLength > 0) and no other bytes are
\* produced.
C16_MarshalContent ==
    (op = "Marshal") =>
        LET wanted == {t \in BuildEMVTagMap :
                          t \in CatalogTags /\ EMVTagFormats(t).DE55 /\ Len(marg[t]) > 0}
            recs   == RefRecordSeq(ret.bytes, 0)
        IN  /\ CompletePrefix(ret.bytes, 0) = Len(ret.bytes)
            /\ Len(recs) = Cardinality(wanted)
            /\ {recs[i].key : i \in 1 .. Len(recs)} = wanted
            /\ \A i \in 1 .. Len(recs) :
                  SubSeq(ret.bytes, recs[i].from + 1, recs[i].to)
                      = encodeTLV(recs[i].key, formatValueForTag(marg[recs[i].key], recs[i].key))

\* Marshal of the record with 82 = AA (padded to 00 AA), 9F27 = 80 and an
\* empty 9F10, 9F27 ranged first: 9F 27 01 80 82 02 00 AA.
C16_Witness ==
    /\ op = "Marshal"
    /\ src = "rec"
    /\ marg[T82] = <<170>>
    /\ marg[T9F27] = <<128>>
    /\ marg[T9F10] = <<>>
    /\ marg[T57] = <<221>>
    /\ ret.bytes = <<159, 39, 1, 128, 130, 2, 0, 170>>

-----------------------------------------------------------------------------
(* Package kernel: the second copy of the codec in src/emvmarshal.go.  Its *)
(* framing, encodeTLV, formatValueForTag, isZeroValue and toMap are those  *)
(* of package emvparser; its EMVData, its catalog, the end of its Parse    *)
(* and its Marshal differ.                                                 *)

\* The emv struct tags of kernel's EMVData, in field order.
KernelEMVDataTags ==
    <<T77, T82, T57, T5F20, T5F24, T9F10, T9F36, T9F17, T9F6E, T9F6C, T9F37,
      T9F26, T91, T5F34, T9F47, T9F27>>

KernelBuildEMVTagMap == {KernelEMVDataTags[i] : i \in 1 .. Len(KernelEMVDataTags)}

KernelFmt(min, left) == [MinLength |-> min, PadLeft |-> left]

\* kernel's catalog EMVTagFormats, as the set of its (tag, format) entries.
KernelEMVTagFormatEntries ==
    { <<T82,   KernelFmt(2, TRUE)>>,  <<T57,   KernelFmt(0, FALSE)>>,
      <<T5F20, KernelFmt(0, FALSE)>>, <<T5F24, KernelFmt(3, TRUE)>>,
      <<T9F10, KernelFmt(0, FALSE)>>, <<T9F26, KernelFmt(8, TRUE)>>,
      <<T9F36, KernelFmt(2, TRUE)>>,  <<T9F37, KernelFmt(4, TRUE)>>,
      <<T9F6C, KernelFmt(2, TRUE)>>,  <<T9F6E, KernelFmt(4, TRUE)>>,
      <<T77,   KernelFmt(0, FALSE)>>, <<T5F34, KernelFmt(1, TRUE)>>,
      <<T9F47, KernelFmt(1, FALSE)>>, <<T9F27, KernelFmt(1, TRUE)>>,
      <<TDEFAULT, KernelFmt(0, FALSE)>> }

KernelCatalogTags == {e[1] : e \in KernelEMVTagFormatEntries}

KernelEMVTagFormats(tag) ==
    (CHOOSE e \in KernelEMVTagFormatEntries : e[1] = tag)[2]

\* kernel's formatValueForTag(value, tag)
KernelFormatValueForTag(value, tag) ==
    LET format == IF tag \in KernelCatalogTags THEN KernelEMVTagFormats(tag)
                  ELSE KernelEMVTagFormats(TDEFAULT)
    IN  IF Len(value) >= format.MinLength THEN value
        ELSE IF format.PadLeft
             THEN Zeros(format.MinLength - Len(value)) \o value
             ELSE value \o Zeros(format.MinLength - Len(value))

\* result := &EMVData{}
KernelEmptyEMVData == [t \in KernelBuildEMVTagMap |-> <<>>]

RECURSIVE KernelParseFrom(_, _, _)
\* The body of kernel's Parse from position pos with the local map
\* tagValues.  status "ok": (result, nil) is returned, result a record made
\* by this call; "error": (nil, err); "panic": the goroutine panics;
\* "fatal": log.Fatalf has ended the process (a tag of tagValues has no
\* field).
KernelParseFrom(bytes, pos, tagValues) ==
    IF pos >= Len(bytes)
    THEN IF DOMAIN tagValues \subseteq KernelBuildEMVTagMap
         THEN ParseReturn("ok", NoError, Populate(KernelEmptyEMVData, tagValues))
         ELSE ParseReturn("fatal", NoError, KernelEmptyEMVData)
    ELSE
    LET r == ReadTLV(bytes, pos)
    IN  IF r.status = "panic" THEN ParseReturn("panic", NoError, KernelEmptyEMVData)
        ELSE IF r.status # "ok"
        THEN ParseReturn("error", ErrorOf(r.status), KernelEmptyEMVData)
        ELSE IF IsConstructed(r.tag)
        THEN LET sub == KernelParseFrom(r.value, 0, EmptyMap)
             IN  IF sub.status \in {"panic", "fatal"} THEN sub
                 ELSE IF sub.status = "error"
                 THEN ParseReturn("error", WrapError(r.tag, sub.err), KernelEmptyEMVData)
                 ELSE KernelParseFrom(bytes, r.next, MapMerge(tagValues, toMap(sub.data)))
        ELSE KernelParseFrom(bytes, r.next, MapPut(tagValues, FmtX(r.tag), r.value))

\* kernel's parser.Parse(bytes)
KernelParseCall(bytes) == KernelParseFrom(bytes, 0, EmptyMap)

\* kernel's tlvMap: every field that is not empty, formatted.
KernelTlvMap(d) ==
    [t \in {x \in KernelBuildEMVTagMap : ~isZeroValue(d[x])} |->
        KernelFormatValueForTag(d[t], t)]

KernelHasTemplateNever(m) == FALSE

\* _, exists := tlvMap["77"]
KernelHasTemplate(m) == T77 \in DOMAIN m

\* The keys the encoding loop of kernel's Marshal visits.
KernelRangedTags(d) ==
    IF KernelHasTemplate(KernelTlvMap(d)) THEN DOMAIN KernelTlvMap(d) \ {T77}
    ELSE DOMAIN KernelTlvMap(d)

\* The bytes kernel's Marshal returns for record d when the map is ranged
\* in order.
KernelMarshalBytes(d, order) ==
    IF KernelHasTemplate(KernelTlvMap(d))
    THEN encodeTLV(T77, EncodeAll(KernelTlvMap(d), order))
    ELSE EncodeAll(KernelTlvMap(d), order)

\* The bound of the kernel specification: the bytes of a document.
MaxKernelBytes == 9

\* 82 and 9F10 have a field in both packages; 4F has one in emvparser only;
\* 95 and 9F02 have none.
KernelLeaves ==
    { Leaf(T82,   <<130>>,     <<170>>, 0),
      Leaf(T9F10, <<159, 16>>, <<238>>, 0),
      Leaf(T4F,   <<79>>,      <<160>>, 0),
      Leaf(T95,   <<149>>,     <<1>>,   0),
      Leaf(T9F02, <<159, 2>>,  <<>>,    0) }

KernelDocsOfLen ==
    [n \in 0 .. MaxKernelBytes |-> Forests(n, KernelLeaves, ConsTags)]

\* emvparser's parser.Parse(bytes) on a parser just made, bytes being a
\* document that may hold tags without a field.
ParseUnknown(f) ==
    /\ op = "NewEMVParser"
    /\ LET bytes == SerForest(f)
       IN  /\ used' = Len(bytes)
           /\ Parse(bytes, "unknown", f, Len(bytes))

\* kernel's parser.Parse(bytes) of the same documents; ret.map holds the
\* fields of the record it returned.
KernelParse(f) ==
    /\ op = "NewEMVParser"
    /\ LET bytes == SerForest(f)
           r     == KernelParseCall(bytes)
       IN  /\ arg' = bytes
           /\ cut' = Len(bytes)
           /\ used' = Len(bytes)
           /\ ret' = Returned(r.status, r.err,
                              IF r.status = "ok" THEN "result" ELSE "nil", <<>>,
                              IF r.status = "ok" THEN r.data ELSE EmptyMap)
    /\ op' = "kernel.Parse"
    /\ doc' = f
    /\ src' = "unknown"
    /\ UNCHANGED <<data, pre, marg, mout, mfresh, targ, calls, stack>>

\* The kernel records a caller builds: the template field 77, and 82 (short
\* of and at its MinLength), 57 (126 bytes make a TLV of 128), 9F10 and 5F34.
KernelRecords ==
    { [KernelEmptyEMVData EXCEPT ![T77] = v77, ![T82] = v82, ![T57] = v57,
                                 ![T9F10] = v9F10, ![T5F34] = v5F34] :
          v77 \in {<<>>, <<1, 2, 3>>}, v82 \in {<<>>, <<170>>, <<32, 48>>},
          v57 \in {<<>>, <<221>>, PrimValue(126, 0)},
          v9F10 \in {<<>>, <<238>>}, v5F34 \in {<<>>, <<1>>} }

\* kernel's parser.Marshal(&R) for a record R the caller built.
KernelMarshal(R, order) ==
    /\ op = "NewEMVParser"
    /\ marg' = R
    /\ mout' = R
    /\ mfresh' = FALSE
    /\ op' = "kernel.Marshal"
    /\ src' = "rec"
    /\ arg' = <<>>
    /\ doc' = <<>>
    /\ cut' = 0
    /\ ret' = Returned("ok", NoError, "nil", KernelMarshalBytes(R, order), EmptyMap)
    /\ UNCHANGED <<data, pre, targ, used, calls, stack>>

NextKernel ==
    \/ NewEMVParser
    \/ \E n \in 0 .. MaxKernelBytes : \E f \in KernelDocsOfLen[n] : ParseUnknown(f)
    \/ \E n \in 0 .. MaxKernelBytes : \E f \in KernelDocsOfLen[n] : KernelParse(f)
    \/ \E R \in KernelRecords : \E order \in RangeOrders(KernelRangedTags(R)) :
          KernelMarshal(R, order)

SpecKernel == Init /\ [][NextKernel]_vars

\* The records of bytes b[from + 1 .. to] under the reference framing are
\* exactly one TLV encodeTLV(t, formatted value of t) for each tag of
\* wanted, and nothing else.
KernelFlatOf(b, wanted, rec) ==
    LET recs == RefRecordSeq(b, 0)
    IN  /\ CompletePrefix(b, 0) = Len(b)
        /\ Len(recs) = Cardinality(wanted)
        /\ {recs[i].key : i \in 1 .. Len(recs)} = wanted
        /\ \A i \in 1 .. Len(recs) :
              SubSeq(b, recs[i].from + 1, recs[i].to)
                  = encodeTLV(recs[i].key, KernelFormatValueForTag(rec[recs[i].key], recs[i].key))

\* C17: kernel's Marshal of a record whose field 77 is not empty returns
\* exactly one TLV with tag 77 whose value is the concatenation of the
\* encodings of all other non-empty fields (formatted), the bytes of field
\* 77 being no part of it; when field 77 is empty the output is the flat
\* concatenation of the encodings of all non-empty fields.
C17_TemplateWrapping ==
    (op = "kernel.Marshal") =>
        LET nonEmpty == {t \in KernelBuildEMVTagMap : Len(marg[t]) > 0}
            outer    == RefRecord(ret.bytes, 0)
        IN  IF Len(marg[T77]) > 0
            THEN /\ outer.kind = "complete"
                 /\ outer.next = Len(ret.bytes)
                 /\ SubSeq(ret.bytes, 1, outer.tl) = <<119>>
                 /\ KernelFlatOf(SubSeq(ret.bytes, outer.hdr + 1, Len(ret.bytes)),
                                 nonEmpty \ {T77}, marg)
            ELSE KernelFlatOf(ret.bytes, nonEmpty, marg)

\* kernel's Marshal of the record 77 = 01 02 03, 82 = AA, 9F10 = EE, 82
\* ranged first: 77 { 82 02 00 AA, 9F10 01 EE }.
C17_Witness ==
    /\ op = "kernel.Marshal"
    /\ marg[T77] = <<1, 2, 3>>
    /\ marg[T82] = <<170>>
    /\ marg[T9F10] = <<238>>
    /\ marg[T57] = <<>>
    /\ marg[T5F34] = <<>>
    /\ ret.bytes = <<119, 8, 130, 2, 0, 170, 159, 16, 1, 238>>

\* The document holds a tag that has no field in the EMVData of package pkg.
HasUnknownTag(f, fields) ==
    \E i \in 1 .. Len(Occurrences(f)) : Occurrences(f)[i].key \notin fields

\* C18: in both packages, Parse of a well-formed input that contains a tag
\* without a field in EMVData returns a record and a nil error: the pair
\* of the unknown tag is dropped and every tag of the input that has a
\* field is assigned a value the input gives it.
C18_UnknownTagsNotFatal ==
    /\ (op = "Parse" /\ src = "unknown" /\ HasUnknownTag(doc, BuildEMVTagMap)) =>
          /\ ret.status = "ok"
          /\ \A i \in 1 .. Len(Occurrences(doc)) :
                LET key == Occurrences(doc)[i].key
                IN  key \in BuildEMVTagMap =>
                        \E j \in 1 .. Len(Occurrences(doc)) :
                            /\ Occurrences(doc)[j].key = key
                            /\ data[key] = Occurrences(doc)[j].value
    /\ (op = "kernel.Parse" /\ src = "unknown" /\ HasUnknownTag(doc, KernelBuildEMVTagMap)) =>
          /\ ret.status = "ok"
          /\ \A i \in 1 .. Len(Occurrences(doc)) :
                LET key == Occurrences(doc)[i].key
                IN  key \in KernelBuildEMVTagMap =>
                        \E j \in 1 .. Len(Occurrences(doc)) :
                            /\ Occurrences(doc)[j].key = key
                            /\ ret.map[key] = Occurrences(doc)[j].value

-----------------------------------------------------------------------------
(* Two callers share one parser: each runs Parse once, without locking.    *)
(* Parse reads its input into the local map tagValues, then stores the     *)
(* map into the fields of parser.data one field at a time, then returns    *)
(* the pointer parser.data.  The stores of the two calls interleave; each  *)
(* store is taken as one step.  The inputs hold primitive records only.    *)

\* The bound of the concurrency specification: the bytes of one input.
MaxConcBytes == 7

ConcLeaves ==
    { Leaf(T82,   <<130>>,     <<170>>, 0),
      Leaf(T82,   <<130>>,     <<187>>, 0),
      Leaf(T57,   <<87>>,      <<221>>, 0),
      Leaf(T9F10, <<159, 16>>, <<238>>, 0) }

ConcDocs == UNION {Forests(n, ConcLeaves, {}) : n \in 0 .. MaxConcBytes}

RECURSIVE CollectFrom(_, _, _)
\* The loop of Parse over a buffer of primitive records, from position pos:
\* the map tagValues it has built when it leaves the loop, or the error.
CollectFrom(bytes, pos, tagValues) ==
    IF pos >= Len(bytes) THEN [status |-> "ok", err |-> NoError, tagValues |-> tagValues]
    ELSE
    LET r == ReadTLV(bytes, pos)
    IN  IF r.status = "panic"
        THEN [status |-> "panic", err |-> NoError, tagValues |-> tagValues]
        ELSE IF r.status # "ok"
        THEN [status |-> "error", err |-> ErrorOf(r.status), tagValues |-> tagValues]
        ELSE IF IsConstructed(r.tag)
        THEN [status |-> "constructed", err |-> NoError, tagValues |-> tagValues]
        ELSE CollectFrom(bytes, r.next, MapPut(tagValues, FmtX(r.tag), r.value))

\* Caller self enters parser.Parse(bytes) and runs its loop over the input,
\* which touches nothing but the input and the local map.
CallParse(self, f) ==
    /\ calls[self].pc = "idle"
    /\ LET bytes == SerForest(f)
           c     == CollectFrom(bytes, 0, EmptyMap)
       IN  /\ c.status = "ok"
           /\ calls' = [calls EXCEPT ![self] =
                           [pc |-> "populate", input |-> bytes, pending |-> c.tagValues,
                            status |-> "none", err |-> NoError, seen |-> EmptyEMVData]]
    /\ op' = "Parse"
    /\ src' = "concurrent"
    /\ UNCHANGED <<data, pre, arg, doc, cut, marg, mout, mfresh, targ, used, ret, stack>>

\* One turn of "for tag, value := range tagValues" in caller self: the
\* field of tag, if there is one, is set in the shared parser.data.
StoreField(self, tag) ==
    /\ calls[self].pc = "populate"
    /\ tag \in DOMAIN calls[self].pending
    /\ data' = IF tag \in BuildEMVTagMap
               THEN [data EXCEPT ![tag] = calls[self].pending[tag]]
               ELSE data
    /\ calls' = [calls EXCEPT ![self].pending =
                    [t \in DOMAIN calls[self].pending \ {tag} |-> calls[self].pending[t]]]
    /\ UNCHANGED <<pre, op, arg, doc, cut, src, marg, mout, mfresh, targ, used, ret, stack>>

\* return parser.data, nil: caller self receives the pointer to the shared
\* record, which reads as seen at this moment.
ReturnParse(self) ==
    /\ calls[self].pc = "populate"
    /\ DOMAIN calls[self].pending = {}
    /\ calls' = [calls EXCEPT ![self].pc = "returned", ![self].status = "ok",
                              ![self].seen = data]
    /\ UNCHANGED <<data, pre, op, arg, doc, cut, src, marg, mout, mfresh, targ, used, ret, stack>>

NextConc ==
    \/ NewEMVParser
    \/ \E self \in Callers : \E f \in ConcDocs : CallParse(self, f)
    \/ \E self \in Callers : \E tag \in DOMAIN calls[self].pending : StoreField(self, tag)
    \/ \E self \in Callers : ReturnParse(self)

SpecConc == Init /\ [][NextConc]_vars

\* C19: when two callers run Parse concurrently on one parser, each caller
\* receives, under every interleaving, the record that Parse of its own
\* input gives on a fresh parser (the record is read at the moment the call
\* returns, before the other caller stores anything more into it).
C19_ConcurrentCallersIsolated ==
    \A self \in Callers :
        (calls[self].pc = "returned") =>
            calls[self].seen = ParseCall(EmptyEMVData, calls[self].input).data

-----------------------------------------------------------------------------
(* Marshal and the records it is given (checked under SpecRec).            *)

-----------------------------------------------------------------------------
(* The order of the TLVs in the output of Marshal (checked under SpecRec). *)

\* C21: two invocations of Marshal on the same record return the same
\* bytes: the bytes a Marshal call returned are the bytes of every order in
\* which the range over tlvMap may visit the tags of that record.
C21_DeterministicOrder ==
    (op = "Marshal") =>
        \A order \in RangeOrders(MarshalledTags(marg)) :
            MarshalBytes(marg, order) = ret.bytes

-----------------------------------------------------------------------------
(* GetEMVPropertyByTag: the lookup of one field of parser.data by its tag  *)
(* text.                                                                   *)

GetEMVPropertyAlwaysFound(d, tag) ==
    [status |-> "ok", err |-> NoError,
     bytes |-> IF tag \in DOMAIN d THEN d[tag] ELSE <<>>]

\* The loop over the fields of parser.data: the first field whose emv
\* struct tag is the given text is returned (field.Bytes(), or the bytes of
\* field.String()); when no field matches, the error "tag .. not found".
GetEMVPropertyByTag(d, tag) ==
    LET idxs == {i \in 1 .. Len(EMVDataTags) : EMVDataTags[i] = tag}
    IN  IF idxs = {}
        THEN [status |-> "error", err |-> ErrorOf("tag not found"), bytes |-> <<>>]
        ELSE [status |-> "ok", err |-> NoError,
              bytes |-> d[EMVDataTags[CHOOSE i \in idxs : \A j \in idxs : i <= j]]]

\* The bound of the lookup specification: the bytes one parser is given
\* over its life.
MaxGetBytes == 7

\* 82 and 9F10 are byte fields, 50 is a text field ("V"), 95 is in the
\* catalog and has no field.
GetLeaves ==
    { Leaf(T82,   <<130>>,     <<170>>, 0),
      Leaf(T82,   <<130>>,     <<187>>, 0),
      Leaf(T50,   <<80>>,      <<86>>,  0),
      Leaf(T9F10, <<159, 16>>, <<238>>, 0),
      Leaf(T95,   <<149>>,     <<1>>,   0) }

GetDocsOfLen == [n \in 0 .. MaxGetBytes |-> Forests(n, GetLeaves, ConsTags)]

T9f10 == <<"9", "f", "1", "0">>

\* The tag texts asked for: with a field, in the catalog without a field
\* (95, DEFAULT), the lower-case spelling of a field's tag, the empty text.
GetTags == {T82, T50, T9F10, T57, T77, T95, TDEFAULT, T9f10, <<>>}

\* parser.Parse of a whole document, the parser having been given
\* MaxGetBytes bytes at most.
ParseForGet(n, f) ==
    /\ used + n <= MaxGetBytes
    /\ used' = used + n
    /\ LET bytes == SerForest(f) IN Parse(bytes, "doc", f, Len(bytes))

\* parser.GetEMVPropertyByTag(tag) on the parser as it stands.
CallGetEMVPropertyByTag(tag) ==
    /\ op \in {"NewEMVParser", "Parse"}
    /\ LET r == GetEMVPropertyByTag(data, tag)
       IN  ret' = Returned(r.status, r.err, "nil", r.bytes, EmptyMap)
    /\ op' = "GetEMVPropertyByTag"
    /\ targ' = tag
    /\ UNCHANGED <<data, pre, arg, doc, cut, src, marg, mout, mfresh, used, calls, stack>>

NextGet ==
    \/ NewEMVParser
    \/ \E n \in 0 .. MaxGetBytes - used : \E f \in GetDocsOfLen[n] : ParseForGet(n, f)
    \/ \E tag \in GetTags : CallGetEMVPropertyByTag(tag)

SpecGet == Init /\ [][NextGet]_vars

\* The tags of the primitive records of a forest, at any depth.
KeysOf(f) == {Occurrences(f)[i].key : i \in 1 .. Len(Occurrences(f))}

\* C22: GetEMVPropertyByTag(t) returns the bytes of the field of the stored
\* record whose tag is t with a nil error, an error for a t no field
\* carries, and, after Parse of a document on a fresh parser, for a tag of
\* the document the value Parse assigned to it (for a document of
\* primitive records, the value of the last record with that tag).
C22_LookupByTag ==
    (op = "GetEMVPropertyByTag") =>
        /\ targ \in BuildEMVTagMap =>
              /\ ret.status = "ok"
              /\ ret.err = NoError
              /\ ret.bytes = data[targ]
        /\ targ \notin BuildEMVTagMap =>
              /\ ret.status = "error"
              /\ ret.err # NoError
        /\ (src = "doc" /\ pre = EmptyEMVData /\ targ \in BuildEMVTagMap
                /\ targ \in KeysOf(doc)) =>
              /\ ret.bytes = ParseCall(EmptyEMVData, arg).data[targ]
              /\ (\A i \in 1 .. Len(doc) : doc[i].prim) =>
                    ret.bytes = LastValue(doc, targ)

\* Parse of 82 01 AA 50 01 56 on a fresh parser, then the lookup of the
\* text field 50.
C22_Witness ==
    /\ op = "GetEMVPropertyByTag"
    /\ arg = <<130, 1, 170, 80, 1, 86>>
    /\ pre = EmptyEMVData
    /\ targ = T50
    /\ ret.status = "ok"
    /\ ret.bytes = <<86>>

-----------------------------------------------------------------------------
(* extractTLVs on well-formed documents whose records have short-form and  *)
(* long-form lengths (SpecExt).                                            *)

\* The bound of the extraction specification: the bytes of a document.
MaxExtBytes == 9

\* Primitive records with a 1-byte and a 2-byte tag, each with a short-form
\* length and with a long-form length of one byte.
ExtLeaves ==
    { Leaf(T82,   <<130>>,     <<170>>,  0),
      Leaf(T82,   <<130>>,     <<170>>,  1),
      Leaf(T57,   <<87>>,      <<221>>,  0),
      Leaf(T9F36, <<159, 54>>, <<1, 0>>, 0),
      Leaf(T9F36, <<159, 54>>, <<1, 0>>, 1) }

ExtConsTags == { <<T77, <<119>>>>, <<TBF0C, <<191, 12>>>> }

RECURSIVE FormForests(_, _, _)
\* The trees of exactly k bytes whose constructed nodes have a short-form
\* length or a long-form length of one byte.
FormTrees(k, leaves, ctags) ==
    {l \in leaves : LeafSize(l) = k} \cup
    UNION {{[Constructed(c[1], c[2], f) EXCEPT !.form = form] :
                f \in FormForests(k - Len(c[2]) - 1 - form, leaves, ctags)} :
              <<c, form>> \in {x \in ctags \X {0, 1} : Len(x[1][2]) + 1 + x[2] <= k}}

\* The forests of exactly n bytes.
FormForests(n, leaves, ctags) ==
    IF n = 0 THEN {<<>>}
    ELSE UNION {{<<t>> \o f : t \in FormTrees(k, leaves, ctags),
                              f \in FormForests(n - k, leaves, ctags)} : k \in 1 .. n}

ExtDocs == UNION {FormForests(n, ExtLeaves, ExtConsTags) : n \in 0 .. MaxExtBytes}

\* extractTLVs(data) of a serialised document.
ExtractDoc(f) ==
    /\ op = "NewEMVParser"
    /\ LET bytes == SerForest(f)
           r     == extractTLVs(bytes)
       IN  /\ arg' = bytes
           /\ cut' = Len(bytes)
           /\ ret' = Returned(r.status, NoError, "nil", <<>>, r.map)
    /\ op' = "extractTLVs"
    /\ doc' = f
    /\ src' = "doc"
    /\ UNCHANGED <<data, pre, marg, mout, mfresh, targ, used, calls, stack>>

NextExt ==
    \/ NewEMVParser
    \/ \E f \in ExtDocs : ExtractDoc(f)

SpecExt == Init /\ [][NextExt]_vars

RECURSIVE NodeKeys(_)
\* The tag texts of the records of a forest: of every top-level record and
\* of every record inside a constructed record (bit 0x20 of the first byte
\* of its tag), at any depth; the value of a primitive record holds none.
NodeKeys(f) ==
    IF f = <<>> THEN {}
    ELSE {FmtX(Head(f).tag)}
         \cup (IF Bit20(Head(f).tag[1]) THEN NodeKeys(Head(f).kids) ELSE {})
         \cup NodeKeys(Tail(f))

\* C23: extractTLVs scans the value of a record for inner TLVs exactly when
\* bit 0x20 of the first byte of its tag is set, whatever the length of the
\* tag and the form of the length: the keys of the map are the tags of the
\* records of the document, those inside constructed records included and
\* nothing from inside the value of a primitive record.
C23_ConstructedByFirstTagByte ==
    (op = "extractTLVs") => DOMAIN ret.map = NodeKeys(doc)

-----------------------------------------------------------------------------
(* The simplified codec of src/unnamed/part_000: the free functions        *)
(* parseEMVData, parseConstructedValue and marshalEMVData.  The framing of *)
(* one record, formatValueForTag, encodeTLV and isZeroValue are written as *)
(* those of package emvparser; its EMVData and its catalog are its own.    *)

\* The emv struct tags of the simplified codec's EMVData, in field order.
SimpleEMVDataTags ==
    <<T77, T82, T57, T5F20, T5F24, T9F10, T9F36, T9F17, T9F6E, T9F6C, T9F37,
      T9F26, T91>>

SimpleFieldTags == {SimpleEMVDataTags[i] : i \in 1 .. Len(SimpleEMVDataTags)}

\* The simplified codec's catalog EMVTagFormats.
SimpleEMVTagFormatEntries ==
    { <<T82,   KernelFmt(2, TRUE)>>,  <<T57,   KernelFmt(0, FALSE)>>,
      <<T5F20, KernelFmt(0, FALSE)>>, <<T5F24, KernelFmt(3, TRUE)>>,
      <<T9F10, KernelFmt(0, FALSE)>>, <<T9F26, KernelFmt(8, TRUE)>>,
      <<T9F27, KernelFmt(1, TRUE)>>,  <<T9F36, KernelFmt(2, TRUE)>>,
      <<T9F37, KernelFmt(4, TRUE)>>,  <<T9F6C, KernelFmt(2, TRUE)>>,
      <<T9F6E, KernelFmt(4, TRUE)>>,  <<T77,   KernelFmt(0, FALSE)>>,
      <<TDEFAULT, KernelFmt(0, FALSE)>> }

SimpleCatalogTags == {e[1] : e \in SimpleEMVTagFormatEntries}

SimpleEMVTagFormats(tag) ==
    (CHOOSE e \in SimpleEMVTagFormatEntries : e[1] = tag)[2]

\* formatValueForTag(value, tag) of the simplified codec
SimpleFormatValueForTag(value, tag) ==
    LET format == IF tag \in SimpleCatalogTags THEN SimpleEMVTagFormats(tag)
                  ELSE SimpleEMVTagFormats(TDEFAULT)
    IN  IF Len(value) >= format.MinLength THEN value
        ELSE IF format.PadLeft
             THEN Zeros(format.MinLength - Len(value)) \o value
             ELSE value \o Zeros(format.MinLength - Len(value))

\* result := &EMVData{}
SimpleEmptyEMVData == [t \in SimpleFieldTags |-> <<>>]

RECURSIVE ConstructedValueFrom(_, _, _)
\* The loop of parseConstructedValue from position pos with the map
\* result: it stops when fewer than two bytes are left, returns the map at
\* every failed check, and does not look inside the values it stores.
ConstructedValueFrom(bytes, pos, result) ==
    IF pos >= Len(bytes) \/ pos + 1 >= Len(bytes) THEN ExtractReturn("ok", result)
    ELSE
    LET r == ReadTLV(bytes, pos)
    IN  IF r.status = "panic" THEN ExtractReturn("panic", result)
        ELSE IF r.status # "ok" THEN ExtractReturn("ok", result)
        ELSE ConstructedValueFrom(bytes, r.next, MapPut(result, FmtX(r.tag), r.value))

parseConstructedValue(bytes) == ConstructedValueFrom(bytes, 0, EmptyMap)

\* The loop over the fields of the new record: a field whose tag is a key
\* of tagValues is set, the others stay empty.
SimplePopulate(tagValues) ==
    [t \in SimpleFieldTags |-> IF t \in DOMAIN tagValues THEN tagValues[t] ELSE <<>>]

RECURSIVE SimpleParseFrom(_, _, _)
\* The loop of parseEMVData from position pos with the map tagValues: the
\* value of every record is stored under its tag, and for a constructed tag
\* the map of parseConstructedValue(value) is added after it.
SimpleParseFrom(bytes, pos, tagValues) ==
    IF pos >= Len(bytes) THEN ParseReturn("ok", NoError, SimplePopulate(tagValues))
    ELSE
    LET r == ReadTLV(bytes, pos)
    IN  IF r.status = "panic" THEN ParseReturn("panic", NoError, SimpleEmptyEMVData)
        ELSE IF r.status # "ok"
        THEN ParseReturn("error", ErrorOf(r.status), SimpleEmptyEMVData)
        ELSE
        LET stored == MapPut(tagValues, FmtX(r.tag), r.value)
        IN  IF Bit20(r.tag[1])
            THEN LET sub == parseConstructedValue(r.value)
                 IN  IF sub.status = "panic"
                     THEN ParseReturn("panic", NoError, SimpleEmptyEMVData)
                     ELSE SimpleParseFrom(bytes, r.next, MapMerge(stored, sub.map))
            ELSE SimpleParseFrom(bytes, r.next, stored)

parseEMVData(bytes) == SimpleParseFrom(bytes, 0, EmptyMap)

\* tlvMap of marshalEMVData: every field that is not empty, formatted.
SimpleTlvMap(d) ==
    [t \in {x \in SimpleFieldTags : ~isZeroValue(d[x])} |->
        SimpleFormatValueForTag(d[t], t)]

\* The keys the range loop of marshalEMVData encodes (none when the
\* template field 77 is set: the function has returned before the loop).
SimpleRangedTags(d) ==
    IF T77 \in DOMAIN SimpleTlvMap(d) THEN {} ELSE DOMAIN SimpleTlvMap(d)

\* The bytes marshalEMVData returns for record d when the map is ranged in
\* order: the template field alone under tag 77, or the other fields
\* wrapped in a 77, or nothing.
marshalEMVData(d, order) ==
    IF T77 \in DOMAIN SimpleTlvMap(d) THEN encodeTLV(T77, SimpleTlvMap(d)[T77])
    ELSE LET innerTLVs == EncodeAll(SimpleTlvMap(d), order)
         IN  IF Len(innerTLVs) > 0 THEN encodeTLV(T77, innerTLVs) ELSE <<>>

\* The bound of the simplified-codec specification: the bytes of a
\* document (the documents of SimpleLongDocs are added).
MaxSimpleBytes == 9

\* 82 (shorter than its MinLength of 2) and 9F10 have a field; 95 has none.
SimpleLeaves ==
    { Leaf(T82,   <<130>>,     <<170>>, 0),
      Leaf(T9F10, <<159, 16>>, <<238>>, 0),
      Leaf(T95,   <<149>>,     <<1>>,   0) }

\* The template 77 and the constructed tag A5, which has no field.
SimpleConsTags == { <<T77, <<119>>>>, <<TA5, <<165>>>> }

\* A template of 127 content bytes (length 7F) and one of 128 (81 80).
SimpleLongDocs ==
    { <<Constructed(T77, <<119>>, <<Leaf(T57, <<87>>, PrimValue(125, 0), 0)>>)>>,
      <<[Constructed(T77, <<119>>, <<Leaf(T57, <<87>>, PrimValue(126, 0), 0)>>)
            EXCEPT !.form = 1]>> }

SimpleDocs ==
    UNION {Forests(n, SimpleLeaves, SimpleConsTags) : n \in 0 .. MaxSimpleBytes}
        \cup SimpleLongDocs

\* parsedData, err := parseEMVData(emvData); ret.map holds the fields of
\* the record returned.
SimpleParse(f) ==
    /\ op = "NewEMVParser"
    /\ LET bytes == SerForest(f)
           r     == parseEMVData(bytes)
       IN  /\ arg' = bytes
           /\ cut' = Len(bytes)
           /\ ret' = Returned(r.status, r.err,
                              IF r.status = "ok" THEN "result" ELSE "nil", <<>>,
                              IF r.status = "ok" THEN r.data ELSE EmptyMap)
    /\ op' = "parseEMVData"
    /\ doc' = f
    /\ src' = "doc"
    /\ UNCHANGED <<data, pre, marg, mout, mfresh, targ, used, calls, stack>>

\* reEncodedData, err := marshalEMVData(parsedData)
SimpleMarshal(order) ==
    /\ op = "parseEMVData"
    /\ src = "doc"
    /\ ret.status = "ok"
    /\ marg' = ret.map
    /\ mout' = ret.map
    /\ op' = "marshalEMVData"
    /\ ret' = Returned("ok", NoError, "nil", marshalEMVData(ret.map, order), EmptyMap)
    /\ UNCHANGED <<data, pre, arg, doc, cut, src, mfresh, targ, used, calls, stack>>

\* reparsedData, err := parseEMVData(reEncodedData)
SimpleReparse ==
    /\ op = "marshalEMVData"
    /\ LET r == parseEMVData(ret.bytes)
       IN  /\ arg' = ret.bytes
           /\ cut' = Len(ret.bytes)
           /\ ret' = Returned(r.status, r.err,
                              IF r.status = "ok" THEN "result" ELSE "nil", <<>>,
                              IF r.status = "ok" THEN r.data ELSE EmptyMap)
    /\ op' = "parseEMVData"
    /\ src' = "marshal"
    /\ UNCHANGED <<data, pre, doc, marg, mout, mfresh, targ, used, calls, stack>>

NextSimple ==
    \/ NewEMVParser
    \/ \E f \in SimpleDocs : SimpleParse(f)
    \/ /\ op = "parseEMVData"
       /\ ret.status = "ok"
       /\ \E order \in RangeOrders(SimpleRangedTags(ret.map)) : SimpleMarshal(order)
    \/ SimpleReparse

SpecSimple == Init /\ [][NextSimple]_vars

\* The document first parsed is one TLV with tag 77 and a value that is
\* not empty (its length is minimal in every document of SimpleDocs).
TemplateInput ==
    /\ Len(doc) = 1
    /\ doc[1].tag = <<119>>
    /\ ~doc[1].prim
    /\ doc[1].kids # <<>>

\* C24: for an input that is one TLV with tag 77, a value that is not
\* empty and a minimal length, marshalEMVData(parseEMVData(input)) is the
\* input, and parsing that output gives a record equal to the first.
C24_TemplateRoundTrip ==
    /\ (op = "marshalEMVData" /\ TemplateInput) => ret.bytes = arg
    /\ (op = "parseEMVData" /\ src = "marshal" /\ TemplateInput) =>
          (ret.status = "ok" /\ ret.map = marg)

\* C25: parseEMVData assigns the field of every primitive tag of the
\* document that has a field, at whatever depth the tag is found: the
\* field holds the value of one of the records with that tag.
C25_FullDepthFlattening ==
    (op = "parseEMVData" /\ src = "doc" /\ ret.status = "ok") =>
        \A t \in SimpleFieldTags \cap KeysOf(doc) :
            \E i \in 1 .. Len(Occurrences(doc)) :
                /\ Occurrences(doc)[i].key = t
                /\ Occurrences(doc)[i].value = ret.map[t]

-----------------------------------------------------------------------------
(* Decoding of arbitrary buffers: bounds (checked under SpecRaw).          *)

\* C26: for every byte sequence, Parse and extractTLVs finish by returning
\* (a record, an error, or a map) and never slice outside the buffer, also
\* when the length bytes overflow the machine integer or make it negative.
C26_NeverOutOfBounds ==
    (op \in {"Parse", "extractTLVs"} /\ src = "raw") => ret.status \in {"ok", "error"}

-----------------------------------------------------------------------------
(* The loops of Parse and extractTLVs, one pass at a time (SpecLoop).  A   *)
(* frame is one call in progress: its buffer, its pos, its local map       *)
(* (tagValues or result) and, for a recursive call, the constructed tag    *)
(* whose value the buffer is.                                              *)

Frame(bytes, tag) == [bytes |-> bytes, pos |-> 0, m |-> EmptyMap, tag |-> tag]

AdvanceStuck(frame, r) == frame

\* pos past the record read: pos += tagLen, pos++, pos++ per length byte,
\* pos += valueLen
AdvanceTo(frame, r) == [frame EXCEPT !.pos = r.next]

RECURSIVE Unwind(_, _)
\* The error as the callers above hand it on, each wrapping it with the tag
\* of the constructed record it was parsing.
Unwind(err, frames) ==
    IF frames = <<>> THEN err
    ELSE Unwind(IF Head(frames).tag = <<>> THEN err
                ELSE WrapError(Head(frames).tag, err), Tail(frames))

\* The bounds of the loop specification: the bytes of a short buffer and
\* of a nested document.
MaxLoopLen == 3
MaxLoopDocBytes == 7

\* 00 01 (lengths and primitive tags), 77 (constructed), 9F (first byte of
\* a 2-byte tag).
LoopBytes == {0, 1, 119, 159}

LoopDocs ==
    UNION {Forests(n, {Leaf(T82, <<130>>, <<170>>, 0), Leaf(T82, <<130>>, <<>>, 0)},
                   ConsTags) : n \in 0 .. MaxLoopDocBytes}

\* 82 (80|N) b1 .. bN rest with 1, 2, 8 and 9 length bytes: lengths that
\* fit, that fill the machine integer (7F FF .., FF FF ..) and that pass it.
LoopLongBuffers ==
    { <<130, 128 + N>> \o LengthBytes(N, lead, 255, last) \o rest :
          N \in {1, 2, 8, 9}, lead \in {0, 127, 255}, last \in {0, 1, 255},
          rest \in {<<>>, <<170>>} }

LoopBuffers ==
    UNION { [1 .. n -> LoopBytes] : n \in 0 .. MaxLoopLen }
        \cup LoopLongBuffers
        \cup {SerForest(f) : f \in LoopDocs}

\* parser.Parse(b) on a parser just made, or extractTLVs(b), is entered.
StartLoop(fn, b) ==
    /\ op = "NewEMVParser"
    /\ stack = <<>>
    /\ op' = fn
    /\ arg' = b
    /\ cut' = Len(b)
    /\ used' = Len(b)
    /\ src' = "loop"
    /\ doc' = <<>>
    /\ pre' = data
    /\ stack' = <<Frame(b, <<>>)>>
    /\ ret' = NoReturn
    /\ UNCHANGED <<data, marg, mout, mfresh, targ, calls>>

\* The innermost call leaves its loop and returns to its caller.  Parse
\* stores its tagValues into parser.data and the caller merges
\* subData.toMap() into its own; extractTLVs hands its result to the
\* caller, which copies it into its own.
ReturnFromLoop ==
    LET f      == stack[1]
        stored == IF op = "Parse" THEN Populate(data, f.m) ELSE data
        given  == IF op = "Parse" THEN toMap(stored) ELSE f.m
    IN  /\ data' = stored
        /\ IF Len(stack) = 1
           THEN /\ stack' = <<>>
                /\ ret' = IF op = "Parse"
                          THEN Returned("ok", NoError, "parser.data", <<>>, EmptyMap)
                          ELSE Returned("ok", NoError, "nil", <<>>, f.m)
           ELSE /\ stack' = <<[stack[2] EXCEPT !.m = MapMerge(@, given)]>>
                              \o SubSeq(stack, 3, Len(stack))
                /\ UNCHANGED ret

\* One pass of "for pos < len(data)" in the innermost call: the loop is
\* left when pos has reached the end; otherwise one record is framed, which
\* ends in a panic, in an error that every caller hands on (Parse), in a
\* break (extractTLVs), or in pos moved past the record, with a recursive
\* call entered on the value of a constructed record.
Iterate ==
    /\ stack # <<>>
    /\ LET f == stack[1]
       IN  IF f.pos >= Len(f.bytes)
           THEN ReturnFromLoop
           ELSE
           LET r == ReadTLV(f.bytes, f.pos)
           IN  IF r.status = "panic"
               THEN /\ stack' = <<>>
                    /\ ret' = Returned("panic", NoError, "nil", <<>>, EmptyMap)
                    /\ UNCHANGED data
               ELSE IF r.status # "ok"
               THEN IF op = "Parse"
                    THEN /\ stack' = <<>>
                         /\ ret' = Returned("error", Unwind(ErrorOf(r.status), stack),
                                            "nil", <<>>, EmptyMap)
                         /\ UNCHANGED data
                    ELSE ReturnFromLoop
               ELSE
               LET descend == IF op = "Parse" THEN IsConstructed(r.tag)
                              ELSE Bit20(f.bytes[(r.next - r.valueLen - r.tagLen - 1) + 1])
                   keep    == op = "extractTLVs" \/ ~descend
                   moved   == AdvanceTo(f, r)
                   here    == IF keep
                              THEN [moved EXCEPT !.m = MapPut(@, FmtX(r.tag), r.value)]
                              ELSE moved
               IN  /\ stack' = (IF descend THEN <<Frame(r.value, r.tag)>> ELSE <<>>)
                                   \o <<here>> \o Tail(stack)
                   /\ UNCHANGED <<data, ret>>
    /\ UNCHANGED <<pre, op, arg, doc, cut, src, marg, mout, mfresh, targ, used, calls>>

NextLoop ==
    \/ stack = <<>> /\ NewEMVParser
    \/ \E b \in LoopBuffers : StartLoop("Parse", b)
    \/ \E b \in LoopBuffers : StartLoop("extractTLVs", b)
    \/ Iterate

SpecLoop == Init /\ [][NextLoop]_vars

\* The passes of a loop are taken as long as a call is in progress.
SpecLoopFair == SpecLoop /\ WF_vars(Iterate)

\* The whole-call operators give what the passes arrive at.
LoopAgreesWithCall ==
    (src = "loop" /\ stack = <<>>) =>
        IF op = "Parse"
        THEN LET c == ParseCall(pre, arg)
             IN  ret.status = c.status /\ ret.err = c.err /\ data = c.data
        ELSE LET e == extractTLVs(arg)
             IN  ret.status = e.status /\ (e.status = "ok" => ret.map = e.map)

\* C27: Parse and extractTLVs terminate on every input: a pass of the loop
\* that does not leave it moves pos on by at least 2 bytes, a recursive
\* call is given a value strictly shorter than the buffer of its caller,
\* and every call in progress comes to its end.
C27_DecodingTerminates ==
    /\ [][(stack # <<>> /\ stack' # <<>> /\ Len(stack') >= Len(stack)) =>
            /\ stack'[Len(stack') - Len(stack) + 1].pos >= stack[1].pos + 2
            /\ stack'[Len(stack') - Len(stack) + 1].pos <= Len(stack[1].bytes)
            /\ Len(stack') > Len(stack) =>
                  Len(stack'[1].bytes) < Len(stack[1].bytes)]_vars
    /\ (stack # <<>>) ~> (stack = <<>>)

\* Parse of 77 03 82 01 AA: the recursive call on the value 82 01 AA has
\* taken its one pass, the caller stands at the end of its 5 bytes.
C27_Witness ==
    /\ op = "Parse"
    /\ arg = <<119, 3, 130, 1, 170>>
    /\ Len(stack) = 2
    /\ stack[1].bytes = <<130, 1, 170>>
    /\ stack[1].pos = 3
    /\ stack[2].pos = 5

-----------------------------------------------------------------------------
(* The stored record after a failed Parse (checked under SpecCut).         *)

\* C28: when Parse returns an error, the stored record is the one the
\* parser held before the call: GetEMVPropertyByTag(t) returns for every
\* tag t what it returned before the call.
C28_UnchangedOnError ==
    (op = "Parse" /\ ret.status = "error") =>
        \A t \in BuildEMVTagMap :
            GetEMVPropertyByTag(data, t) = GetEMVPropertyByTag(pre, t)

-----------------------------------------------------------------------------
(* What Marshal returns, read back (checked under SpecRec).                *)

\* The top-level records of b are complete and fill b to its last byte.
ConsumesEveryByte(b) == CompletePrefix(b, 0) = Len(b)

\* C29: for every record, strict Parse of the bytes Marshal returned
\* succeeds and consumes every byte, and extractTLVs of those bytes gives
\* exactly the emitted tags, each with its formatted value.
C29_MarshalOutputWellFormed ==
    (op = "Marshal") =>
        /\ ParseCall(EmptyEMVData, ret.bytes).status = "ok"
        /\ ConsumesEveryByte(ret.bytes)
        /\ extractTLVs(ret.bytes).status = "ok"
        /\ extractTLVs(ret.bytes).map = TlvMap(marg)

-----------------------------------------------------------------------------
(* The record a Parse call returned, after the next call (checked under    *)
(* Spec).                                                                  *)

\* C30: the record one Parse call returned keeps its field values through
\* the next Parse call on the same parser: what the pointer handed out by
\* the first call (parser.data) holds is the same before and after the
\* second call.
C30_ReturnedRecordsIndependent ==
    [][(op = "Parse" /\ ret.status = "ok" /\ op' = "Parse") => data' = data]_vars

====
